---- MODULE Spec2Model ----
(***************************************************************************)
(* UWGeodynamics Model: the stepping loop (run_for), the timestep          *)
(* selection, the state advancer (_update), checkpointing and restart.     *)
(*                                                                         *)
(* Times are the non-dimensional floats of the code, modelled exactly as   *)
(* multiples of 1/Scale of one non-dimensional time unit ("ticks").        *)
(* A step count k compared with a time (stepDone == next_checkpoint) is    *)
(* therefore the comparison k * Scale = ticks.                             *)
(***************************************************************************)
EXTENDS Integers, Sequences, FiniteSets, TLC

\* ---------------------------------------------------------------- bounds
Scale == 2          \* ticks per non-dimensional time unit
MaxTime == 8        \* cap on the clock, in ticks
MaxStep == 4        \* cap on Model.step
MaxID == 3          \* cap on checkpointID
MaxCfl == 2         \* largest get_max_dt() answer, in ticks
Unit == 2           \* viscosityChange is a multiple of 1 / Unit
MaxMelt == 4        \* melt fractions are multiples of 1 / MaxMelt
MaxVisc == 5        \* largest viscosity a handler gives

\* --------------------------------------------------- program constants
TwoCFL == 1             \* 2.0 * rcParams["CFL"], CFL = 0.5
NFieldFiles == 9        \* default.outputs that are mesh.variables, temperature apart
NSwarmFiles == 3        \* swarm-N.h5 + materialField-N.h5 + plasticStrain-N.h5

None == -1              \* Python None for next_checkpoint and _dt

Particles == {1, 2}

Min(S) == CHOOSE x \in S : \A y \in S : x <= y
Min2(x, y) == IF x <= y THEN x ELSE y
IDs == 0..MaxID

\* ------------------------------------------------------------- features
\* What the Model was configured with before run_for: the temperature
\* field, the advection-diffusion method, the materials' optional
\* properties, the mesh advector, the free surface, tracers, ...
\* obs: the elastic observation times of the elastic materials, in ticks.
Bools == {TRUE, FALSE}
ObsSets == {{}, {3}, {3, 6}}

AllFeatures ==
  [temperature : Bools, supg : Bools, healing : Bools, melt : Bools,
   advector : Bools, freeSurface : Bools, tracers : Bools,
   surface : Bools, visugrid : Bools, obs : ObsSets]

Plain ==
  [temperature |-> FALSE, supg |-> TRUE, healing |-> FALSE, melt |-> FALSE,
   advector |-> FALSE, freeSurface |-> FALSE, tracers |-> FALSE,
   surface |-> FALSE, visugrid |-> FALSE, obs |-> {}]

\* The configurations the stepping-loop specification starts from.
RunFeatures ==
  { Plain,
    [Plain EXCEPT !.temperature = TRUE, !.obs = {3}],
    [Plain EXCEPT !.temperature = TRUE, !.supg = FALSE, !.freeSurface = TRUE,
                  !.tracers = TRUE] }

\* ------------------------------------------------------------ materials
\* A material of Model.materials: which handlers it declares, its
\* melt-weakening parameters, its own viscosity limits (0: not set) and its
\* healing rate. viscosityChange is vc / Unit; melt fractions and the
\* breakpoints X1, X2 are in steps of 1 / MaxMelt.
Material(v, pl, el, me, x2, vc, lo, hi, heal) ==
  [viscosity |-> v, plasticity |-> pl, elasticity |-> el, melt |-> me,
   viscosityChangeX1 |-> 1, viscosityChangeX2 |-> x2, viscosityChange |-> vc,
   minViscosity |-> lo, maxViscosity |-> hi, healingRate |-> heal]

\* The Model itself, always the last entry of Model.materials (line 201):
\* no handler declared.
Bare == Material(FALSE, FALSE, FALSE, FALSE, 2, Unit, 0, 0, 0)

\* The first material: every combination of handlers (one at least), with
\* two slopes and two widths of the melt-weakening ramp, and with its own
\* limits, its own maximum only, or none.
RawKinds ==
  { Material(v, pl, el, me, x2, vc, lim[1], lim[2], 0) :
      v \in Bools, pl \in Bools, el \in Bools, me \in Bools,
      x2 \in {2, 3}, vc \in {1, Unit + 1},
      lim \in {<<0, 0>>, <<2, 3>>, <<0, 2>>} }
MaterialKinds ==
  { m \in RawKinds :
      /\ m.viscosity \/ m.plasticity \/ m.elasticity \/ m.melt
      /\ ~m.melt => (m.viscosityChangeX2 = 2 /\ m.viscosityChange = 1) }

\* The other material of the list.
OtherKinds ==
  { Bare,
    Material(TRUE, FALSE, FALSE, FALSE, 2, 1, 0, 0, 0),
    Material(FALSE, FALSE, TRUE, FALSE, 2, 1, 0, 0, 0) }

\* Model.minViscosity and Model.maxViscosity
ModelLimits == [minViscosity |-> 1, maxViscosity |-> 4]

VARIABLES
  feat,           \* the Model's configuration (fixed after construction)
  time,           \* Model.time, ticks
  step,           \* Model.step
  checkpointID,   \* Model.checkpointID
  dt,             \* Model._dt (None before the first selection)
  timeField,      \* per-particle elapsed time
  updLog,         \* the mutations of the last _update call, in order
  dirExists,      \* os.path.exists(outputDir)
  swarmFile,      \* ID -> swarm-ID.h5: its time attribute (None: no file)
  fieldFile,      \* IDs with <field>-ID.h5 files written by checkpoint_fields
  pc,             \* "idle", "loop", "done", "error", or "upd"/"updated"
  arg,            \* the arguments of the current run_for call
  stepDone,       \* run_for local
  endT,           \* run_for local `duration` after line 1595/1598
  nextCk,         \* run_for local next_checkpoint
  hist,           \* history of the current call (observations only)
  materials,      \* Model.materials
  frictionalBCs,  \* Model.frictionalBCs is not None
  solutionExist,  \* Model._solution_exist.value
  fld,            \* per particle, the fields the handlers read
  viscosityFn,    \* the functions the last composition built, at the particles
  plasticStrain,  \* per-particle plasticStrain
  previousStress, \* per-particle _previousStressField (one component)
  procs,          \* the MPI processes of a parallel run_for call, by rank
  materialField,  \* per-particle materialField: the index of its material
  fieldTime       \* ID -> the time attribute of the <field>-ID.h5 files

rheoVars == <<materials, frictionalBCs, fld, viscosityFn, plasticStrain>>

vars == <<feat, time, step, checkpointID, dt, timeField, updLog, dirExists,
          swarmFile, fieldFile, pc, arg, stepDone, endT, nextCk, hist,
          materials, frictionalBCs, solutionExist, fld, viscosityFn,
          plasticStrain, previousStress, procs, materialField, fieldTime>>

\* ------------------------------------------------------ processes
\* A parallel run: every rank runs the same script. A process is what is
\* left of its program (todo: the sites to run, up to the next branch), the
\* barrier calls it has returned from (log), and its copy of the clock and
\* of run_for's locals. Sites named b<line> are uw.barrier() calls.
Ranks == {0, 1}
BarrierSites ==
  {"b1583", "b1588", "b1667", "b1686", "b1692",
   "b2008", "b2060", "b2087", "b2126", "b2153"}
WriteSites == {"wfields", "wswarm", "wtracers"}
NewProc ==
  [status |-> "run", todo |-> <<"restart">>, log |-> <<>>, time |-> 0,
   step |-> 0, stepDone |-> 0, id |-> 0, nextCk |-> None, endT |-> 0,
   dt |-> None, iter |-> 0]
NoProcs == [r \in Ranks |-> [NewProc EXCEPT !.status = "off", !.todo = <<>>]]

\* lines 279-287: every particle starts in the Model's own material, index 0
ModelIndex == 0
Unpainted == [p \in Particles |-> ModelIndex]

\* ------------------------------------------------------- _viscosityFn
\* The fields one particle shows to the handlers when the composed
\* function is evaluated: muV the viscous handler's muEff, muVE the
\* elasticity handler's muEff, muP and muF the yield viscosities
\* 0.5 * yieldStress / eij of the material's plasticity and of the
\* frictional boundary, mask the frictional boundary mask, melt the
\* meltField, sr the second invariant of the strain rate.
FieldsOf(m, fric) ==
  [muV : IF m.viscosity THEN {1, 3, MaxVisc} ELSE {0},
   muVE : IF m.viscosity /\ m.elasticity THEN {1, 2} ELSE {0},
   muP : IF m.plasticity THEN {1, 3, MaxVisc} ELSE {0},
   muF : IF m.plasticity /\ fric THEN {2} ELSE {0},
   mask : IF m.plasticity /\ fric THEN Bools ELSE {FALSE},
   melt : IF m.melt THEN 0..MaxMelt ELSE {0},
   sr : {0, 1}]
NoFields ==
  [muV |-> 0, muVE |-> 0, muP |-> 0, muF |-> 0, mask |-> FALSE, melt |-> 0, sr |-> 0]

\* Viscosities of a material are kept as multiples of 1 / Fine(m), so that
\* the melt-weakening factor is exact.
Fine(m) == Unit * (m.viscosityChangeX2 - m.viscosityChangeX1)

\* lines 1166-1177 with the two outer segments exchanged
MeltModifierSwapped(m, melt) ==
  LET X1 == m.viscosityChangeX1
      X2 == m.viscosityChangeX2
      change == Fine(m) + (m.viscosityChange - Unit) * (melt - X1)
  IN  IF melt < X1 THEN m.viscosityChange * (X2 - X1)
      ELSE IF melt > X2 THEN Fine(m)
      ELSE change
\* lines 1166-1177: the melt-weakening factor, times Fine(m)
MeltModifier(m, melt) ==
  LET X1 == m.viscosityChangeX1
      X2 == m.viscosityChangeX2
      change == Fine(m) + (m.viscosityChange - Unit) * (melt - X1)
  IN  IF melt < X1 THEN Fine(m)
      ELSE IF melt > X2 THEN m.viscosityChange * (X2 - X1)
      ELSE change

\* lines 1143-1177: ViscosityMap[material.index] of a material with a
\* viscosity: viscous law, elasticity, melt modifier.
ViscosityMap(m, f) ==
  (IF m.elasticity THEN f.muVE ELSE f.muV)
    * (IF m.melt THEN MeltModifier(m, f.melt) ELSE Fine(m))

\* lines 1180-1253: PlasticityMap[material.index]
PlasticityMap(m, fric, f) ==
  (IF fric /\ f.mask THEN f.muF ELSE f.muP) * Fine(m)

\* lines 1255-1271 with the larger of the two branches
CombineMax(m, fric, f) ==
  IF m.viscosity /\ m.plasticity
    THEN [eff |-> IF PlasticityMap(m, fric, f) >= ViscosityMap(m, f)
                    THEN PlasticityMap(m, fric, f) ELSE ViscosityMap(m, f),
          bg |-> ViscosityMap(m, f), plastic |-> 0]
  ELSE IF m.viscosity
    THEN [eff |-> ViscosityMap(m, f), bg |-> ViscosityMap(m, f), plastic |-> 0]
  ELSE [eff |-> PlasticityMap(m, fric, f), bg |-> PlasticityMap(m, fric, f),
        plastic |-> 1]
\* lines 1255-1271: EffViscosityMap, BGViscosityMap and PlasticMap of a
\* material with a viscosity or a plasticity
Combine(m, fric, f) ==
  IF m.viscosity /\ m.plasticity
    THEN [eff |-> Min2(PlasticityMap(m, fric, f), ViscosityMap(m, f)),
          bg |-> ViscosityMap(m, f), plastic |-> 0]
  ELSE IF m.viscosity
    THEN [eff |-> ViscosityMap(m, f), bg |-> ViscosityMap(m, f), plastic |-> 0]
  ELSE [eff |-> PlasticityMap(m, fric, f), bg |-> PlasticityMap(m, fric, f),
        plastic |-> 1]

\* lines 1276-1284: the material's limits where set, the Model's otherwise
LimitsOf(m) ==
  [lo |-> (IF m.minViscosity = 0 THEN ModelLimits.minViscosity
                                 ELSE m.minViscosity) * Fine(m),
   hi |-> (IF m.maxViscosity = 0 THEN ModelLimits.maxViscosity
                                 ELSE m.maxViscosity) * Fine(m)]

\* ViscosityLimiter.apply (UWGeodynamics._rheology): clamp to [lo, hi]
Clamp(v, lim) == IF v > lim.hi THEN lim.hi ELSE IF v < lim.lo THEN lim.lo ELSE v

\* lines 1301-1303 with "<=" for "<"
YieldConditionsLe(eff, bg, plastic) ==
  IF eff <= bg THEN 1 ELSE IF plastic = 1 THEN 1 ELSE 0
\* lines 1301-1303: yieldConditions
YieldConditions(eff, bg, plastic) ==
  IF eff < bg THEN 1 ELSE IF plastic = 1 THEN 1 ELSE 0

\* lines 1152-1164 without the test
ElasticAlwaysViscous(ms) == FALSE
\* lines 1152-1164: some material declares elasticity and no viscosity
ElasticNotViscous(ms) ==
  \E i \in DOMAIN ms : ms[i].elasticity /\ ~ms[i].viscosity

\* line 1176: ViscosityMap[material.index] *= ... without an entry
MeltNotViscous(ms) ==
  \E i \in DOMAIN ms : ms[i].melt /\ ~ms[i].viscosity

\* What the composed functions give at a particle of material m with the
\* fields f: the viscosity before and after the limiter, the background
\* viscosity and the yielding diagnostic (None: the maps hold no entry).
NoValue ==
  [pre |-> None, eff |-> None, bg |-> None, plastic |-> None, flag |-> None,
   yield |-> None]
Evaluate(m, fric, f, exists) ==
  IF ~(m.viscosity \/ m.plasticity) THEN NoValue
  ELSE LET c == Combine(m, fric, f)
           e == Clamp(c.eff, LimitsOf(m))
           y == IF exists THEN YieldConditions(e, c.bg, c.plastic) ELSE 0
       IN  [pre |-> c.eff, eff |-> e, bg |-> c.bg, plastic |-> c.plastic,
            flag |-> y,                       \* lines 1301-1303, 1307, 1311
            yield |-> y * f.sr]               \* _isYielding, lines 1308-1309

\* Model._viscosityFn: the composition fails, or gives functions whose
\* values at the particles are at[p]; isYielding is set at composition
\* from _solution_exist.
Compose(ms, fric, fs, exists) ==
  IF ElasticNotViscous(ms)
    THEN [ok |-> FALSE, err |-> "ValueError", at |-> [p \in Particles |-> NoValue]]
  ELSE IF MeltNotViscous(ms)
    THEN [ok |-> FALSE, err |-> "KeyError", at |-> [p \in Particles |-> NoValue]]
  ELSE [ok |-> TRUE, err |-> "",
        at |-> [p \in Particles |-> Evaluate(ms[p], fric, fs[p], exists)]]

\* Before any composition: no function built yet (line 244).
NotComposed == [ok |-> TRUE, err |-> "", at |-> [p \in Particles |-> NoValue]]
ZeroStrain == [p \in Particles |-> 0]
NoStress == [p \in Particles |-> 0]
ViscousOnly == Material(TRUE, FALSE, FALSE, FALSE, 2, 1, 0, 0, 0)
NoParticleFields == [p \in Particles |-> NoFields]
\* The rheology of the stepping-loop specifications: one viscous material.
PlainRheology ==
  /\ materials = <<ViscousOnly, Bare>> /\ frictionalBCs = FALSE
  /\ fld = NoParticleFields /\ viscosityFn = NotComposed
  /\ plasticStrain = ZeroStrain /\ previousStress = NoStress /\ procs = NoProcs /\ materialField = Unpainted

\* ------------------------------------------------------------ _update
\* One entry of the log of an _update call: the block of _update that
\* made the call (stage), the collaborator call (op) and the dt passed
\* to it (None when the call takes no dt).
Entry(stage, op, d) == [stage |-> stage, op |-> op, dt |-> d]
Opt(c, s) == IF c THEN s ELSE <<>>

\* _update, lines 1774-1783: mesh advector first, else free surface,
\* else plain advection with ownership update.
GeometryAdvance(f, d) ==
  IF f.advector
    THEN <<Entry("geometry", "integrate_update_owners", d),
           Entry("geometry", "advect_mesh", d)>>
    ELSE IF f.freeSurface
      THEN <<Entry("geometry", "integrate_no_owners", d),
             Entry("geometry", "freeSurface_solve", d),
             Entry("geometry", "update_particle_owners", None)>>
      ELSE <<Entry("geometry", "integrate_update_owners", d)>>

\* _update with the stress-history update before the geometry advance
UpdateLogStressFirst(f, d) ==
     Opt(f.healing, <<Entry("healing", "heal", d)>>)
  \o <<Entry("accumulation", "accumulate", d)>>
  \o Opt(f.melt, <<Entry("melt", "update_melt_fraction", None)>>)
  \o Opt(f.temperature, <<Entry("temperature", "advdiff_integrate", d)>>)
  \o Opt(f.obs # {}, <<Entry("stress", "update_stress_history", d)>>)
  \o GeometryAdvance(f, d)
  \o Opt(f.tracers, <<Entry("tracers", "tracers_integrate", d)>>)
  \o <<Entry("popcontrol", "repopulate", None),
       Entry("popcontrol", "update_particle_owners", None)>>
  \o Opt(f.surface, <<Entry("surface", "surfaceProcesses_solve", d)>>)
  \o <<Entry("timeField", "timeField_add", d)>>
  \o Opt(f.visugrid, <<Entry("visugrid", "visugrid_advect", d)>>)
  \o <<Entry("phaseChange", "phaseChangeFn", None)>>

\* The calls of one _update(dt), in program order.
UpdateLog(f, d) ==
     Opt(f.healing, <<Entry("healing", "heal", d)>>)
  \o <<Entry("accumulation", "accumulate", d)>>
  \o Opt(f.melt, <<Entry("melt", "update_melt_fraction", None)>>)
  \o Opt(f.temperature, <<Entry("temperature", "advdiff_integrate", d)>>)
  \o GeometryAdvance(f, d)
  \o Opt(f.obs # {}, <<Entry("stress", "update_stress_history", d)>>)
  \o Opt(f.tracers, <<Entry("tracers", "tracers_integrate", d)>>)
  \o <<Entry("popcontrol", "repopulate", None),
       Entry("popcontrol", "update_particle_owners", None)>>
  \o Opt(f.surface, <<Entry("surface", "surfaceProcesses_solve", d)>>)
  \o <<Entry("timeField", "timeField_add", d)>>
  \o Opt(f.visugrid, <<Entry("visugrid", "visugrid_advect", d)>>)
  \o <<Entry("phaseChange", "phaseChangeFn", None)>>

\* timeField.data[...] += dt
AdvanceTimeField(tf, d) == [p \in Particles |-> tf[p] + d]

\* _viscous_stressFn, lines 1327-1329, at a particle of material m showing
\* the fields f: 2 * viscosity * strain rate (one component).
ViscousStress(m, fric, f, exists) ==
  IF f.sr = 0 THEN 0
  ELSE 2 * (Evaluate(m, fric, f, exists).eff \div Fine(m)) * f.sr

\* Stresses are kept as multiples of 1 / StressUnit: an update divides by
\* an observation time of 3 or 6 ticks, once per iteration.
StressUnit == 6 ^ MaxStep

\* ElasticityHandler.elastic_stress (UWGeodynamics._rheology): the elastic
\* stress grows with the previous stress it is given, here with factor 1.
ElasticStress(prev) == prev

\* _stressFn, lines 1315-1325 and 1331-1349: viscous plus elastic stress
\* where the material is elastic, viscous stress elsewhere.
StressFn(m, v, prev) == IF m.elasticity THEN v + ElasticStress(prev) ELSE v

\* lines 1357-1365 with the stress evaluated after previousStress was scaled
UpdateStressScaledFirst(prev, ms, obs, d, v) ==
  LET dt_e == Min(obs)
      scaled == [p \in Particles |-> (prev[p] * (dt_e - d)) \div dt_e]
  IN  [p \in Particles |->
         scaled[p] + (d * StressFn(ms[p], v[p], scaled[p])) \div dt_e]
\* _update_stress_history, lines 1357-1365: phi = dt / dt_e with dt_e the
\* smallest observation time; the stress is evaluated, then previousStress
\* is scaled by 1 - phi and phi times the stress added. v: the viscous
\* stress at the particles.
UpdateStressHistory(prev, ms, obs, d, v) ==
  LET dt_e == Min(obs)
      veStressFn_data == [p \in Particles |-> StressFn(ms[p], v[p], prev[p])]
  IN  [p \in Particles |->
         (prev[p] * (dt_e - d) + d * veStressFn_data[p]) \div dt_e]

\* ------------------------------------------------- timestep selection
\* run_for, lines 1632-1665. cfl and supgIn are the answers of
\* swarm_advector.get_max_dt() and _advdiffSystem.get_max_dt().
\* a: the call's arguments; t: the local time; end: the local `duration`
\* (the end time, or the start time when no duration was given);
\* ck: next_checkpoint. The result is [ok, dt]: ok = FALSE is the
\* IndexError of tcheck[0] on an empty list, dt then being what _dt holds.
AdvectiveBound(cfl) == TwoCFL * cfl
SupgBound(supgIn) == TwoCFL * supgIn
ElasticBound(f) == Min(f.obs) \div 3     \* dte / 3., obs times are multiples of 3
\* lines 1651-1654 with the largest of the remaining gaps
GapsFarthest(a, t) ==
  LET g == {v - t : v \in a.ctimes} \cap Nat
  IN  {x \in g : \A y \in g : y <= x}
\* lines 1651-1652: tcheck, the non-negative values of checkpoint_times - time
Gaps(a, t) == {v - t : v \in a.ctimes} \cap Nat

\* lines 1645-1646 without the bound
EndBoundNever(a, end) == FALSE
EndBoundActive(a, end) == end # 0        \* `if duration:` on the overwritten local

SelectDt(a, f, t, end, ck, cfl, supgIn) ==
  LET d1 == AdvectiveBound(cfl)
      d2 == IF f.temperature /\ f.supg THEN Min2(d1, SupgBound(supgIn)) ELSE d1
      d3 == IF a.ckMode = "time" THEN Min2(d2, ck - t) ELSE d2
      d4 == IF EndBoundActive(a, end) THEN Min2(d3, end - t) ELSE d3
      d5 == IF a.dt # 0 THEN Min2(d4, a.dt) ELSE d4
      bad == a.ctimes # {} /\ Gaps(a, t) = {}
      d6 == IF a.ctimes # {} /\ ~bad THEN Min2(d5, Min(Gaps(a, t))) ELSE d5
      d7 == IF f.obs # {} /\ Min(f.obs) # 0 /\ d6 > ElasticBound(f)
              THEN ElasticBound(f) ELSE d6
  IN  IF bad THEN [ok |-> FALSE, dt |-> d5] ELSE [ok |-> TRUE, dt |-> d7]

\* ------------------------------------------------------ the directory
\* The output directory holds, for a field checkpoint N, one <field>-N.h5
\* per saved mesh field (plus temperature-N.h5, mesh-N.h5 and the tracer
\* file when configured) and, for a swarm checkpoint N, swarm-N.h5 with
\* the swarm fields. The XDMF.*.xmf files and mesh.h5 carry no "-".
NoSwarm == [time |-> None, gstep |-> None]
HasSwarm(N) == swarmFile[N].time # None
\* restart without its line 382
DirNeverEmpty == FALSE
\* line 382: os.listdir(restartDir) is empty
DirEmpty == fieldFile = {} /\ \A N \in IDs : ~HasSwarm(N)

FilesOf(N) ==
    (IF N \in fieldFile
       THEN NFieldFiles + (IF feat.temperature THEN 1 ELSE 0)
                        + (IF feat.advector \/ feat.freeSurface THEN 1 ELSE 0)
                        + (IF feat.tracers THEN 1 ELSE 0)
       ELSE 0)
  + (IF HasSwarm(N) THEN NSwarmFiles ELSE 0)

\* restart, lines 386-389: the sorted list of the numbers after the last
\* "-" of every file name holding a "-" (one entry per file).
RECURSIVE IndicesFrom(_)
IndicesFrom(N) ==
  IF N > MaxID THEN <<>> ELSE [i \in 1..FilesOf(N) |-> N] \o IndicesFrom(N + 1)
indices == IndicesFrom(0)

\* checkpoint_fields writes mesh-N.h5 with an advector or a free surface
\* and mesh.h5 (once) otherwise; restart reads mesh-N.h5 with an advector
\* and mesh.h5 otherwise.
MeshOnDisk(N) ==
  IF feat.advector THEN N \in fieldFile
  ELSE fieldFile # {} /\ ~feat.freeSurface

\* ------------------------------------------------------------ restart
\* Model.restart(step, restartDir) on an existing directory. The result is
\* the outcome and the clock and timeField the Model is left with.
RestartResult(o, e, t, id, tf, gs) ==
  [outcome |-> o, err |-> e, time |-> t, checkpointID |-> id,
   timeField |-> tf, gstep |-> gs]

restart(stepArg) ==
  LET ind == indices
      n == Len(ind)
      same(o, e) == RestartResult(o, e, time, checkpointID, timeField, None)
      zeroTF == [p \in Particles |-> 0]
  IN  IF DirEmpty THEN same("empty", "")                       \* line 382
      ELSE IF stepArg < 0 /\ -stepArg > n THEN same("error", "IndexError")
      ELSE
        LET s == IF stepArg < 0 THEN ind[n + stepArg + 1] ELSE stepArg   \* line 392
        IN  IF \A i \in 1..n : ind[i] # s
              THEN same("error", "ValueError")                 \* line 395
            ELSE IF ~HasSwarm(s)
              THEN same("error", "IOError")                    \* line 401
            ELSE IF ~MeshOnDisk(s)                             \* lines 403-419
              THEN RestartResult("error", "IOError", swarmFile[s].time, s,
                                 timeField, None)
            ELSE IF s \notin fieldFile                         \* lines 432-443
              THEN RestartResult("error", "IOError", swarmFile[s].time, s,
                                 zeroTF, None)
            ELSE RestartResult("ok", "", swarmFile[s].time, s, zeroTF,
                               swarmFile[s].gstep)

\* ---------------------------------------------------------- arguments
\* 0 stands for an argument that is None (or zero: the code tests truth).
Durations == {0, 3, 7}
NSteps == {0, 1, 3}
Intervals == {[mode |-> "none", val |-> 0],
              [mode |-> "time", val |-> 2], [mode |-> "time", val |-> 3],
              [mode |-> "step", val |-> 2]}
CkTimes == {{}, {2, 5}}
Strides == {1, 2}
UserDts == {0, 1}
\* restartStep and restartDir; -1 and "none" are the defaults.
RestartArgs == {<<-1, "none">>, <<0, "none">>, <<1, "given">>, <<-2, "none">>}

Options(a) ==
  {o \in {"interval", "ctimes", "dt", "stride", "both"} :
     \/ o = "interval" /\ a.ckMode # "none"
     \/ o = "ctimes" /\ a.ctimes # {}
     \/ o = "dt" /\ a.dt # 0
     \/ o = "stride" /\ a.stride # 1
     \/ o = "both" /\ a.duration # 0 /\ a.nstep # 0}

AllArgs ==
  {a \in [duration : Durations, nstep : NSteps,
          ckMode : {"none", "time", "step"}, ckVal : 0..3,
          ctimes : CkTimes, stride : Strides, dt : UserDts] :
     [mode |-> a.ckMode, val |-> a.ckVal] \in Intervals}

\* The calls of one behaviour (the user's script): either one run_for call
\* with at most two of the optional arguments, or a checkpointed run
\* followed by one more call, in the same or in a new process, with at
\* most one of them.
Long(a) == a.duration = 7
RunArgs ==
  {a \in AllArgs :
     IF Long(a) THEN a.ckMode = "time" /\ a.ckVal = 2 /\ Options(a) = {"interval"}
     ELSE Cardinality(Options(a)) <= 2}
ProduceArgs ==
  {a \in AllArgs : /\ a.ctimes = {} /\ a.dt = 0 /\ ~Long(a)
                   /\ (a.duration = 0) # (a.nstep = 0)
                   /\ a.nstep # 1}
ResumeArgs ==
  {a \in AllArgs : /\ ~Long(a)
                   /\ Cardinality(Options(a) \ {"stride"}) <= 1
                   /\ a.nstep # 1
                   /\ (a.stride # 1 => a.ckMode = "time" /\ a.ckVal = 2)}
DefaultRestart == {<<-1, "none">>}
CallSet(as, rs) == [args |-> as, restarts |-> rs]
Scripts ==
  { <<CallSet(RunArgs, {<<-1, "none">>, <<1, "none">>})>>,
    <<CallSet(ProduceArgs, DefaultRestart), CallSet(ResumeArgs, RestartArgs)>> }

NoArgs == [duration |-> 0, nstep |-> 0, ckMode |-> "none", ckVal |-> 0,
           ctimes |-> {}, stride |-> 1, dt |-> 0]

\* --------------------------------------------------------------- state
ZeroTF == [p \in Particles |-> 0]
NoSwarms == [N \in IDs |-> NoSwarm]
NoFieldTimes == [N \in IDs |-> None]

\* The history of a run_for call: what the call was given, what restart
\* did, and what the last iteration saw. Nothing in the program reads it.
NoHist ==
  [script |-> <<>>, calls |-> 0, rs |-> 0, rd |-> "none", restart |-> "notcalled", rerr |-> "",
   rstep |-> None, preTime |-> 0, preStep |-> 0, preID |-> 0,
   t0 |-> 0, step0 |-> 0, cfl |-> 0, supg |-> 0, tBefore |-> None,
   ckBefore |-> None, idBefore |-> None, trig |-> {}, ntrig |-> 0,
   lastTrig |-> FALSE, existed |-> FALSE, psBefore |-> [p \in {1, 2} |-> 0],
   initID |-> None, loopSwarm |-> {}, cflSum |-> 0, tfBefore |-> ZeroTF,
   tol |-> "none", stepBefore |-> None, sdBefore |-> None, order |-> <<>>,
   prevBefore |-> [p \in {1, 2} |-> 0]]

\* Model.__init__, lines 193-197 and 286: a new Model in a new process,
\* no output directory yet.
Init ==
  /\ feat \in RunFeatures
  /\ time = 0 /\ step = 0 /\ checkpointID = 0 /\ dt = None
  /\ timeField = ZeroTF /\ updLog = <<>>
  /\ dirExists = FALSE /\ swarmFile = NoSwarms /\ fieldFile = {} /\ fieldTime = NoFieldTimes
  /\ pc = "idle" /\ arg = NoArgs /\ stepDone = 0 /\ endT = 0 /\ nextCk = None
  /\ \E sc \in Scripts : hist = [NoHist EXCEPT !.script = sc]
  /\ PlainRheology /\ solutionExist = FALSE

\* ------------------------------------------------------------- run_for
\* checkpoint_fields / checkpoint_swarms: the files of checkpoint id.
SaveFields(ff, id) == ff \cup {id}
\* lines 2010, 2046-2047: every file of the checkpoint is saved with time=time
SaveFieldTime(ft, id, t) == [ft EXCEPT ![id] = t]
SaveSwarm(sf, id, t, st) == [sf EXCEPT ![id] = [time |-> t, gstep |-> st]]

\* lines 1579-1581, were restart run only for a restart argument the
\* caller gave
RestartIfAsked(rs, rd) == rs # 0 /\ (rs # -1 \/ rd # "none") /\ dirExists
\* lines 1579-1581: restart is attempted when restartStep is true and the
\* restart directory (restartDir, else the output directory) exists.
RestartAttempted(rs, rd) == rs # 0 /\ dirExists

\* line 1623 with "<=" for "<" on the time bound
LoopCondLe(t, end, sd, n) == t <= end \/ sd < n
\* line 1623 with "and" for "or"
LoopCondAnd(t, end, sd, n) == t < end /\ sd < n
\* line 1623
LoopCond(t, end, sd, n) == t < end \/ sd < n

\* lines 1676-1678
StepEquals(a, sd, ck) ==
  CASE a.ckMode = "step" -> sd = ck
    [] a.ckMode = "time" -> sd * Scale = ck
    [] OTHER -> FALSE
Trigger(a, t, sd, ck) == (a.ckMode = "time" /\ t = ck) \/ StepEquals(a, sd, ck)

\* line 1689 without the stride test
SwarmAlways(id, stride) == TRUE
\* line 1689
SwarmDue(id, stride) == id % stride = 0

\* lines 1613-1617 with the step-count target counted from the clock
FirstCheckpointFromClock(a, t) ==
  CASE a.ckMode = "time" -> t + a.ckVal
    [] a.ckMode = "step" -> t + a.ckVal
    [] OTHER -> None
\* lines 1613-1617
FirstCheckpoint(a, t) ==
  CASE a.ckMode = "time" -> t + a.ckVal
    [] a.ckMode = "step" -> 0 + a.ckVal
    [] OTHER -> None

\* lines 1593-1598
EndTime(a, t) == IF a.duration # 0 THEN t + a.duration ELSE t

\* run_for up to the loop: restart, output directory, locals, initial
\* checkpoint (lines 1575-1621). rs, rd: restartStep and restartDir.
RunFor(a, rs, rd) ==
  /\ pc \in {"idle", "done", "error"}
  /\ hist.calls < Len(hist.script)
  /\ a \in hist.script[hist.calls + 1].args
  /\ <<rs, rd>> \in hist.script[hist.calls + 1].restarts
  /\ LET r == IF RestartAttempted(rs, rd) THEN restart(rs)
              ELSE RestartResult("notcalled", "", time, checkpointID, timeField, None)
         ck == a.ckMode # "none" \/ a.ctimes # {}
         h == [NoHist EXCEPT !.script = hist.script, !.calls = hist.calls + 1,
                 !.rs = rs, !.rd = rd,
                 !.restart = r.outcome, !.rerr = r.err, !.rstep = r.gstep,
                 !.preTime = time, !.preStep = step, !.preID = checkpointID,
                 !.t0 = r.time, !.step0 = step, !.tfBefore = r.timeField]
     IN  /\ time' = r.time
         /\ checkpointID' = r.checkpointID
         /\ timeField' = r.timeField
         /\ arg' = a
         /\ stepDone' = 0
         /\ UNCHANGED <<feat, step, dt, updLog, rheoVars, solutionExist, previousStress, procs, materialField>>
         /\ IF r.outcome = "error"
              THEN /\ pc' = "error"
                   /\ hist' = h
                   /\ endT' = 0 /\ nextCk' = None
                   /\ UNCHANGED <<dirExists, swarmFile, fieldFile, fieldTime>>
              ELSE /\ pc' = "loop"
                   /\ endT' = EndTime(a, r.time)
                   /\ nextCk' = FirstCheckpoint(a, r.time)
                   /\ dirExists' = (dirExists \/ ck)
                   /\ fieldFile' = IF ck THEN SaveFields(fieldFile, r.checkpointID)
                                         ELSE fieldFile
                   /\ fieldTime' = IF ck THEN SaveFieldTime(fieldTime, r.checkpointID, r.time)
                                         ELSE fieldTime
                   /\ swarmFile' = IF ck THEN SaveSwarm(swarmFile, r.checkpointID, r.time, step)
                                         ELSE swarmFile
                   /\ hist' = [h EXCEPT !.initID = IF ck THEN r.checkpointID ELSE None]

\* Model.solve, lines 1506-1513: the "initial.nonlinear.*" parameters when
\* Model.step is 0, the "nonlinear.*" ones otherwise.
SolveParams(st) == IF st = 0 THEN "initial" ELSE "standard"

\* The calls of one iteration in program order: lines 1625 (preSolveHook),
\* 1627 (solve), 1629-1665 (the timestep), 1669 (_update), 1671-1674 (the
\* counters and the clock), 1676-1692 (checkpoint decision and files),
\* 1701 (postSolveHook).
Iteration ==
  <<"preSolveHook", "solve", "dt", "_update", "clock", "checkpoint", "postSolveHook">>

\* lines 1671-1674 with the step counter left alone
ClockAdvanceTimeOnly(t, st, sd, d) == [time |-> t + d, step |-> st, stepDone |-> sd + 1]
\* lines 1671-1674: step += 1, stepDone += 1, self.time += self._dt
ClockAdvance(t, st, sd, d) == [time |-> t + d, step |-> st + 1, stepDone |-> sd + 1]

\* One iteration of the loop (lines 1623-1701): solve, timestep selection,
\* _update, clock advance, checkpoint decision, swarm checkpoint.
Step ==
  /\ pc = "loop"
  /\ LoopCond(time, endT, stepDone, arg.nstep)
  /\ step < MaxStep
  /\ solutionExist' = TRUE                                     \* line 1522
  /\ UNCHANGED rheoVars
  /\ \E cfl \in 1..MaxCfl,
        supgIn \in (IF feat.temperature /\ feat.supg THEN 1..MaxCfl ELSE {0}) :
       LET sel == SelectDt(arg, feat, time, endT, nextCk, cfl, supgIn)
           clk == ClockAdvance(time, step, stepDone, sel.dt)
           t2 == clk.time
           sd2 == clk.stepDone
           trg == Trigger(arg, t2, sd2, nextCk)
           id2 == IF trg THEN checkpointID + 1 ELSE checkpointID
           sw == SwarmDue(id2, arg.stride)
           h == [hist EXCEPT !.cfl = cfl, !.supg = supgIn, !.tBefore = time,
                   !.ckBefore = nextCk, !.idBefore = checkpointID,
                   !.tfBefore = timeField, !.tol = SolveParams(step),
                   !.stepBefore = step, !.sdBefore = stepDone,
                   !.prevBefore = previousStress]
           v == [p \in Particles |->
                   StressUnit * ViscousStress(materials[p], frictionalBCs, fld[p], TRUE)]
       IN  IF ~sel.ok
             THEN \* IndexError at line 1654, after the solve
                  /\ pc' = "error"
                  /\ dt' = sel.dt
                  /\ hist' = [h EXCEPT !.rerr = "IndexError",
                                        !.order = SubSeq(Iteration, 1, 3)]
                  /\ UNCHANGED <<feat, time, step, checkpointID, timeField, updLog,
                                 dirExists, swarmFile, fieldFile, arg, stepDone,
                                 endT, nextCk, previousStress, procs, materialField, fieldTime>>
             ELSE /\ t2 <= MaxTime
                  /\ trg => checkpointID < MaxID
                  /\ dt' = sel.dt
                  /\ updLog' = UpdateLog(feat, sel.dt)
                  /\ timeField' = AdvanceTimeField(timeField, sel.dt)
                  /\ previousStress' =                   \* lines 1786-1787
                       IF feat.obs # {}
                         THEN UpdateStressHistory(previousStress, materials,
                                                  feat.obs, sel.dt, v)
                         ELSE previousStress
                  /\ step' = clk.step
                  /\ stepDone' = sd2
                  /\ time' = t2
                  /\ checkpointID' = id2
                  /\ fieldFile' = IF trg THEN SaveFields(fieldFile, id2) ELSE fieldFile
                  /\ fieldTime' = IF trg THEN SaveFieldTime(fieldTime, id2, t2)
                                        ELSE fieldTime
                  /\ nextCk' = IF trg THEN nextCk + arg.ckVal ELSE nextCk
                  /\ swarmFile' = IF sw THEN SaveSwarm(swarmFile, id2, t2, step + 1)
                                        ELSE swarmFile
                  /\ dirExists' = (dirExists \/ trg \/ sw)
                  /\ hist' = [h EXCEPT
                       !.trig = IF trg THEN @ \cup {t2} ELSE @,
                       !.ntrig = IF trg THEN @ + 1 ELSE @,
                       !.lastTrig = trg,
                       !.order = Iteration,
                       !.loopSwarm = IF sw THEN @ \cup {id2} ELSE @,
                       !.cflSum = Min2(@ + AdvectiveBound(cfl), MaxTime + 1)]
                  /\ pc' = "loop"
                  /\ UNCHANGED <<feat, arg, endT, procs, materialField>>

\* line 1703: the loop condition is false, run_for returns.
Return ==
  /\ pc = "loop"
  /\ ~LoopCond(time, endT, stepDone, arg.nstep)
  /\ pc' = "done"
  /\ UNCHANGED <<feat, time, step, checkpointID, dt, timeField, updLog, dirExists,
                 swarmFile, fieldFile, arg, stepDone, endT, nextCk, hist,
                 rheoVars, solutionExist, previousStress, procs, materialField, fieldTime>>

\* The script is run again in a new process: a new Model (lines 193-197),
\* the directory as the earlier process left it.
NewProcess ==
  /\ pc \in {"done", "error"}
  /\ time' = 0 /\ step' = 0 /\ checkpointID' = 0 /\ dt' = None
  /\ timeField' = ZeroTF /\ updLog' = <<>>
  /\ pc' = "idle" /\ arg' = NoArgs /\ stepDone' = 0 /\ endT' = 0 /\ nextCk' = None
  /\ hist' = [NoHist EXCEPT !.script = hist.script, !.calls = hist.calls]
  /\ solutionExist' = FALSE                                    \* line 243
  /\ previousStress' = NoStress                                \* line 294
  /\ UNCHANGED <<feat, dirExists, swarmFile, fieldFile, rheoVars, procs, materialField, fieldTime>>

\* The output directory is created empty before the run (job script).
MakeDir ==
  /\ pc = "idle" /\ ~dirExists
  /\ dirExists' = TRUE
  /\ UNCHANGED <<feat, time, step, checkpointID, dt, timeField, updLog,
                 swarmFile, fieldFile, pc, arg, stepDone, endT, nextCk, hist,
                 rheoVars, solutionExist, previousStress, procs, materialField, fieldTime>>

Call == \E a \in AllArgs, r \in RestartArgs : RunFor(a, r[1], r[2])

Next == Call \/ Step \/ Return \/ NewProcess \/ MakeDir

Spec == Init /\ [][Next]_vars

\* ------------------------------------------------- _update on its own
\* One _update call for every configuration, every dt the selection can
\* give and particles of different ages.
InitU ==
  /\ feat \in AllFeatures
  /\ dt \in 0..MaxCfl
  /\ timeField \in [Particles -> 0..1]
  /\ time = 0 /\ step = 0 /\ checkpointID = 0 /\ updLog = <<>>
  /\ dirExists = FALSE /\ swarmFile = NoSwarms /\ fieldFile = {} /\ fieldTime = NoFieldTimes
  /\ pc = "upd" /\ arg = NoArgs /\ stepDone = 0 /\ endT = 0 /\ nextCk = None
  /\ hist = NoHist
  /\ PlainRheology /\ solutionExist = TRUE

\* Model._update, lines 1739-1807
DoUpdate ==
  /\ pc = "upd"
  /\ updLog' = UpdateLog(feat, dt)
  /\ timeField' = AdvanceTimeField(timeField, dt)
  /\ hist' = [hist EXCEPT !.tfBefore = timeField]
  /\ pc' = "updated"
  /\ UNCHANGED <<feat, time, step, checkpointID, dt, dirExists, swarmFile,
                 fieldFile, arg, stepDone, endT, nextCk, rheoVars, solutionExist, previousStress, procs, materialField, fieldTime>>

NextU == DoUpdate

SpecU == InitU /\ [][NextU]_vars

\* ------------------------------------------ _viscosityFn on its own
\* One composition for every list of two materials, with and without a
\* frictional boundary, before and after the first solution.
InitV ==
  /\ feat = Plain
  /\ time = 0 /\ step = 0 /\ checkpointID = 0 /\ dt = None
  /\ timeField = ZeroTF /\ updLog = <<>>
  /\ dirExists = FALSE /\ swarmFile = NoSwarms /\ fieldFile = {} /\ fieldTime = NoFieldTimes
  /\ pc = "compose" /\ arg = NoArgs /\ stepDone = 0 /\ endT = 0 /\ nextCk = None
  /\ hist = NoHist
  /\ \E m \in MaterialKinds, o \in OtherKinds : materials = <<m, o>>
  /\ frictionalBCs \in Bools
  /\ solutionExist \in Bools
  /\ fld = NoParticleFields /\ viscosityFn = NotComposed
  /\ plasticStrain = ZeroStrain /\ previousStress = NoStress /\ procs = NoProcs /\ materialField = Unpainted

\* Model._viscosityFn (lines 1136-1313), read with the particles showing
\* the fields fs; a failed composition leaves no function.
ComposeV ==
  /\ pc = "compose"
  /\ \E f1 \in FieldsOf(materials[1], frictionalBCs),
        f2 \in FieldsOf(materials[2], frictionalBCs) :
       LET fs == [p \in Particles |-> IF p = 1 THEN f1 ELSE f2]
           r == Compose(materials, frictionalBCs, fs, solutionExist)
       IN  /\ f2.sr = 1 /\ f2.muV \in {0, 3}      \* the other particle: one case
           /\ fld' = fs
           /\ viscosityFn' = r
           /\ pc' = IF r.ok THEN "composed" ELSE "error"
  /\ UNCHANGED <<feat, time, step, checkpointID, dt, timeField, updLog, dirExists,
                 swarmFile, fieldFile, arg, stepDone, endT, nextCk, hist,
                 materials, frictionalBCs, solutionExist, plasticStrain,
                 previousStress, procs, materialField, fieldTime>>

NextV == ComposeV

SpecV == InitV /\ [][NextV]_vars

\* --------------------------------- solve and _update, plastic strain
\* The materials of the solve/_update specification: a visco-plastic
\* material with three healing rates, a plastic-only one, a viscous one
\* whose own maximum is below its viscosity; and the other material.
WithHealing(m, h) == [m EXCEPT !.healingRate = h]
LoopKinds ==
  { WithHealing(Material(TRUE, TRUE, FALSE, FALSE, 2, 1, 0, 0, 0), h) : h \in 0..2 }
  \cup { Material(FALSE, TRUE, FALSE, FALSE, 2, 1, 0, 0, 1),
         Material(TRUE, FALSE, FALSE, FALSE, 2, 1, 0, 2, 0) }
LoopOthers ==
  { ViscousOnly, Material(TRUE, TRUE, FALSE, FALSE, 2, 1, 0, 0, 1) }
LoopFields(m) ==
  { f \in FieldsOf(m, FALSE) : f.muV \in {0, 3} }

InitP ==
  /\ \E m \in LoopKinds, o \in LoopOthers :
       /\ materials = <<m, o>>
       /\ feat = [Plain EXCEPT !.healing = (m.healingRate # 0 \/ o.healingRate # 0)]
  /\ time = 0 /\ step = 0 /\ checkpointID = 0 /\ dt = None
  /\ timeField = ZeroTF /\ updLog = <<>>
  /\ dirExists = FALSE /\ swarmFile = NoSwarms /\ fieldFile = {} /\ fieldTime = NoFieldTimes
  /\ pc = "presolve" /\ arg = NoArgs /\ stepDone = 0 /\ endT = 0 /\ nextCk = None
  /\ hist = NoHist
  /\ frictionalBCs = FALSE
  /\ solutionExist = FALSE
  /\ fld = NoParticleFields /\ viscosityFn = NotComposed
  /\ plasticStrain \in [Particles -> 0..1]
  /\ previousStress = NoStress /\ procs = NoProcs /\ materialField = Unpainted

\* Model.solve (lines 1503-1522): get_stokes_solver composes the viscosity
\* (line 822) with _solution_exist as it is before the solve; the solve
\* leaves new fields and _solution_exist = True.
SolveP ==
  /\ pc = "presolve"
  /\ step < MaxStep
  /\ \E f1 \in LoopFields(materials[1]), f2 \in LoopFields(materials[2]) :
       LET fs == [p \in Particles |-> IF p = 1 THEN f1 ELSE f2]
       IN  /\ fld' = fs
           /\ viscosityFn' = Compose(materials, frictionalBCs, fs, solutionExist)
  /\ hist' = [hist EXCEPT !.existed = solutionExist]
  /\ solutionExist' = TRUE
  /\ pc' = "solved"
  /\ UNCHANGED <<feat, time, step, checkpointID, dt, timeField, updLog, dirExists,
                 swarmFile, fieldFile, arg, stepDone, endT, nextCk,
                 materials, frictionalBCs, plasticStrain, previousStress, procs, materialField, fieldTime>>

\* lines 1750-1764 with the accumulation before the healing
StrainAccumulateFirst(ps, ms, d, yield) ==
  [p \in Particles |->
     LET acc == ps[p] + d * yield[p]
         healed == acc - d * ms[p].healingRate
     IN  IF \E i \in DOMAIN ms : ms[i].healingRate # 0
           THEN (IF healed < 0 THEN 0 ELSE healed)
           ELSE acc]
\* lines 1750-1764: healing with its floor at zero, then accumulation
UpdatePlasticStrain(ps, ms, d, yield) ==
  [p \in Particles |->
     LET healed == ps[p] - d * ms[p].healingRate
         kept == IF \E i \in DOMAIN ms : ms[i].healingRate # 0
                   THEN (IF healed < 0 THEN 0 ELSE healed)
                   ELSE ps[p]
     IN  kept + d * yield[p]]

\* lines 1669-1674: _update with the dt selected, then the clock advance
UpdateP ==
  /\ pc = "solved"
  /\ \E d \in 0..MaxCfl :
       /\ time + d <= MaxTime
       /\ dt' = d
       /\ plasticStrain' = UpdatePlasticStrain(plasticStrain, materials, d,
                              [p \in Particles |-> viscosityFn.at[p].yield])
       /\ updLog' = UpdateLog(feat, d)
       /\ timeField' = AdvanceTimeField(timeField, d)
       /\ time' = time + d
  /\ step' = step + 1
  /\ stepDone' = stepDone + 1
  /\ hist' = [hist EXCEPT !.psBefore = plasticStrain, !.tfBefore = timeField]
  /\ pc' = "presolve"
  /\ UNCHANGED <<feat, checkpointID, dirExists, swarmFile, fieldFile, arg, endT,
                 nextCk, materials, frictionalBCs, solutionExist, fld, viscosityFn,
                 previousStress, procs, materialField, fieldTime>>

NextP == SolveP \/ UpdateP

SpecP == InitP /\ [][NextP]_vars

\* ------------------------------- run_for with elastic materials
\* One run_for call without restart on a new Model whose materials are
\* visco-elastic (observation times 3 and 6 ticks) or viscous, with
\* particles that deform or not and carry a stress history or not.
ViscoElastic == Material(TRUE, FALSE, TRUE, FALSE, 2, 1, 0, 0, 0)
ElasticObs == {{3}, {6}, {3, 6}}
ElasticArgs == {a \in RunArgs : ~Long(a) /\ a.ctimes = {} /\ a.stride = 1}
ElasticFields == {[NoFields EXCEPT !.muV = 3, !.muVE = 3, !.sr = s] : s \in {0, 1}}

InitE ==
  /\ \E o \in ElasticObs :
       /\ feat = [Plain EXCEPT !.obs = o]
       /\ materials = <<ViscoElastic,
                        IF Cardinality(o) = 2 THEN ViscoElastic ELSE ViscousOnly>>
  /\ frictionalBCs = FALSE
  /\ fld \in [Particles -> ElasticFields]
  /\ viscosityFn = NotComposed /\ plasticStrain = ZeroStrain
  /\ previousStress \in [Particles -> {0, 6 * StressUnit}]
  /\ procs = NoProcs /\ materialField = Unpainted
  /\ time = 0 /\ step = 0 /\ checkpointID = 0 /\ dt = None
  /\ timeField = ZeroTF /\ updLog = <<>>
  /\ dirExists = FALSE /\ swarmFile = NoSwarms /\ fieldFile = {} /\ fieldTime = NoFieldTimes
  /\ pc = "idle" /\ arg = NoArgs /\ stepDone = 0 /\ endT = 0 /\ nextCk = None
  /\ hist = [NoHist EXCEPT !.script = <<CallSet(ElasticArgs, {<<0, "none">>})>>]
  /\ solutionExist = FALSE

NextE == Call \/ Step \/ Return

SpecE == InitE /\ [][NextE]_vars

\* ------------------------------------------- run_for on several ranks
\* checkpoint_fields (lines 2006-2060), checkpoint_swarms (2085-2126) and
\* checkpoint_tracers (2151-2157): rank 0 creates the directory, barrier,
\* the writes, and for the first two a closing barrier.
CheckpointFields == <<"mk", "b2008", "wfields", "b2060">>
CheckpointSwarms == <<"mk", "b2087", "wswarm", "b2126">>
CheckpointTracers == <<"mk", "b2153", "wtracers">>
\* Model.checkpoint, lines 1952-1954
Checkpoint == CheckpointFields \o CheckpointSwarms \o CheckpointTracers

\* lines 1579-1583 with the barrier under `if os.path.exists(restartDir):`
BarrierInsideExists(rs, exists) == rs # 0 /\ exists
\* lines 1579-1583: the barrier is under `if restartStep:` only
BarrierAfterRestart(rs, exists) == rs # 0

\* The run_for arguments and the directories of the parallel runs: no
\* directory, an empty one, one holding checkpoints 0 and 1.
BarrierArgs == {a \in RunArgs : ~Long(a) /\ a.dt = 0 /\ a.nstep # 1}
TwoCheckpoints ==
  [NoSwarms EXCEPT ![0] = [time |-> 0, gstep |-> 0],
                   ![1] = [time |-> 2, gstep |-> 2]]

InitB ==
  /\ feat \in {Plain, [Plain EXCEPT !.tracers = TRUE]}
  /\ arg \in BarrierArgs
  /\ \E r \in RestartArgs, c \in 1..MaxCfl :
       hist = [NoHist EXCEPT !.rs = r[1], !.rd = r[2], !.cfl = c]
  /\ \/ dirExists = FALSE /\ swarmFile = NoSwarms /\ fieldFile = {} /\ fieldTime = NoFieldTimes
     \/ dirExists = TRUE /\ swarmFile = NoSwarms /\ fieldFile = {} /\ fieldTime = NoFieldTimes
     \/ dirExists = TRUE /\ swarmFile = TwoCheckpoints /\ fieldFile = {0, 1}
        /\ fieldTime = [NoFieldTimes EXCEPT ![0] = 0, ![1] = 2]
  /\ procs = [r \in Ranks |-> NewProc] /\ materialField = Unpainted
  /\ time = 0 /\ step = 0 /\ checkpointID = 0 /\ dt = None
  /\ timeField = ZeroTF /\ updLog = <<>>
  /\ pc = "mpi" /\ stepDone = 0 /\ endT = 0 /\ nextCk = None
  /\ materials = <<ViscousOnly, Bare>> /\ frictionalBCs = FALSE
  /\ fld = NoParticleFields /\ viscosityFn = NotComposed
  /\ plasticStrain = ZeroStrain /\ previousStress = NoStress
  /\ solutionExist = FALSE

\* Rank r runs the next site of its program, which is not a barrier.
Local(r) ==
  LET q == procs[r]
      site == Head(q.todo)
      rest == Tail(q.todo)
      ck == arg.ckMode # "none" \/ arg.ctimes # {}
      Goes(q2) == procs' = [procs EXCEPT ![r] = q2]
      Files == <<dirExists, swarmFile, fieldFile, fieldTime>>
  IN
  /\ q.status = "run" /\ q.todo # <<>> /\ site \notin BarrierSites
  /\ CASE site = "restart" ->                              \* lines 1579-1583
            LET exists == dirExists
                res == IF hist.rs # 0 /\ exists THEN restart(hist.rs)
                       ELSE RestartResult("notcalled", "", q.time, q.id, timeField, None)
                after == (IF BarrierAfterRestart(hist.rs, exists)
                            THEN <<"b1583">> ELSE <<>>)
                         \o <<"makedirs", "b1588", "entry">>
            IN  /\ Goes(IF res.outcome = "error"
                          THEN [q EXCEPT !.status = "error", !.todo = <<>>]
                          ELSE [q EXCEPT !.time = res.time, !.id = res.checkpointID,
                                         !.todo = after])
                /\ UNCHANGED Files
       [] site = "makedirs" ->                             \* lines 1585-1587
            /\ dirExists' = (dirExists \/ (ck /\ r = 0))
            /\ Goes([q EXCEPT !.todo = rest])
            /\ UNCHANGED <<swarmFile, fieldFile, fieldTime>>
       [] site = "entry" ->                                \* lines 1590-1621
            /\ Goes([q EXCEPT !.stepDone = 0, !.endT = EndTime(arg, q.time),
                              !.nextCk = FirstCheckpoint(arg, q.time),
                              !.todo = (IF ck THEN Checkpoint ELSE <<>>) \o <<"head">>])
            /\ UNCHANGED Files
       [] site = "mk" ->                       \* lines 2006-2007, 2085-2086, 2151-2152
            /\ dirExists' = (dirExists \/ r = 0)
            /\ Goes([q EXCEPT !.todo = rest])
            /\ UNCHANGED <<swarmFile, fieldFile, fieldTime>>
       [] site = "wfields" ->                              \* lines 2010-2059
            /\ fieldFile' = SaveFields(fieldFile, q.id)
            /\ fieldTime' = SaveFieldTime(fieldTime, q.id, q.time)
            /\ Goes([q EXCEPT !.todo = rest])
            /\ UNCHANGED <<dirExists, swarmFile>>
       [] site = "wswarm" ->                               \* lines 2089-2125
            /\ swarmFile' = SaveSwarm(swarmFile, q.id, q.time, q.step)
            /\ Goes([q EXCEPT !.todo = rest])
            /\ UNCHANGED <<dirExists, fieldFile, fieldTime>>
       [] site = "wtracers" ->                             \* lines 2155-2157
            /\ Goes([q EXCEPT !.todo = rest])
            /\ UNCHANGED Files
       [] site = "head" ->                     \* lines 1694-1701, 1623, 1703
            /\ IF LoopCond(q.time, q.endT, q.stepDone, arg.nstep)
                 THEN /\ q.step < MaxStep
                      /\ Goes([q EXCEPT !.iter = @ + 1,
                                        !.todo = <<"solve", "b1667", "advance">>])
                 ELSE Goes([q EXCEPT !.status = "done", !.todo = <<>>])
            /\ UNCHANGED Files
       [] site = "solve" ->                                \* lines 1625-1665
            LET sel == SelectDt(arg, feat, q.time, q.endT, q.nextCk, hist.cfl, 0)
            IN  /\ Goes(IF sel.ok THEN [q EXCEPT !.dt = sel.dt, !.todo = rest]
                                  ELSE [q EXCEPT !.dt = sel.dt, !.status = "error",
                                                 !.todo = <<>>])
                /\ UNCHANGED Files
       [] site = "advance" ->                              \* lines 1669-1684
            LET clk == ClockAdvance(q.time, q.step, q.stepDone, q.dt)
                trg == Trigger(arg, clk.time, clk.stepDone, q.nextCk)
            IN  /\ clk.time <= MaxTime
                /\ trg => q.id < MaxID
                /\ Goes([q EXCEPT
                      !.time = clk.time, !.step = clk.step, !.stepDone = clk.stepDone,
                      !.id = IF trg THEN @ + 1 ELSE @,
                      !.nextCk = IF trg THEN @ + arg.ckVal ELSE @,
                      !.todo = (IF trg THEN CheckpointFields \o CheckpointTracers
                                       ELSE <<>>) \o <<"b1686", "stride">>])
                /\ UNCHANGED Files
       [] site = "stride" ->                               \* lines 1688-1692
            /\ Goes([q EXCEPT
                  !.todo = (IF SwarmDue(q.id, arg.stride) THEN CheckpointSwarms
                                                          ELSE <<>>)
                           \o <<"b1692", "head">>])
            /\ UNCHANGED Files
  /\ UNCHANGED <<feat, time, step, checkpointID, dt, timeField, updLog, pc, arg,
                 stepDone, endT, nextCk, hist, rheoVars, solutionExist,
                 previousStress, materialField>>

\* uw.barrier(): the call returns in every process once every process of
\* the communicator has made a barrier call, whatever the line it is on.
Release ==
  /\ \A r \in Ranks : /\ procs[r].status = "run" /\ procs[r].todo # <<>>
                       /\ Head(procs[r].todo) \in BarrierSites
  /\ procs' = [r \in Ranks |->
                [procs[r] EXCEPT !.log = Append(@, Head(procs[r].todo)),
                                 !.todo = Tail(@)]]
  /\ UNCHANGED <<feat, time, step, checkpointID, dt, timeField, updLog, dirExists,
                 swarmFile, fieldFile, pc, arg, stepDone, endT, nextCk, hist,
                 rheoVars, solutionExist, previousStress, materialField, fieldTime>>

Run == \E r \in Ranks : Local(r)

NextB == Run \/ Release

SpecB == InitB /\ [][NextB]_vars

\* ======================================================================
\* Properties
\* ======================================================================
Stepped == pc \in {"loop", "done"} /\ stepDone > 0

\* The bounds of the last iteration other than the distance to the end.
OtherBounds ==
       {AdvectiveBound(hist.cfl)}
  \cup (IF feat.temperature /\ feat.supg THEN {SupgBound(hist.supg)} ELSE {})
  \cup (IF arg.ckMode = "time" THEN {hist.ckBefore - hist.tBefore} ELSE {})
  \cup (IF arg.dt # 0 THEN {arg.dt} ELSE {})
  \cup (IF arg.ctimes # {} THEN {Min(Gaps(arg, hist.tBefore))} ELSE {})
  \cup (IF feat.obs # {} THEN {ElasticBound(feat)} ELSE {})

\* The active bounds of the last iteration as the specification lists them:
\* the distance to the end belongs to them iff a duration was requested.
ActiveBounds ==
  OtherBounds \cup
  (IF arg.duration # 0 THEN {hist.t0 + arg.duration - hist.tBefore} ELSE {})

\* C1: in every iteration the dt handed to _update is the minimum of
\* exactly the active bounds (the end bound being active iff a duration
\* was requested).
C1_DtIsMinOfActiveBounds == Stepped => dt = Min(ActiveBounds)

\* C1, as the code has it: the end bound is active iff the local
\* `duration` (end time, or start time without a duration) is non-zero.
C1_DtIsMinOfCodeBounds ==
  Stepped => dt = Min(OtherBounds \cup
                      (IF endT # 0 THEN {endT - hist.tBefore} ELSE {}))

\* C7: without a requested duration the distance to the end never
\* constrains dt, whatever the starting time: dt is the minimum of the
\* other active bounds.
C7_NoDurationNoEndBound ==
  (Stepped /\ arg.duration = 0) => dt = Min(OtherBounds)

\* C3: an iteration starts only while (time < requested end) or
\* (steps done < requested steps), run_for returns only when both are
\* false, and with both requested it returns with both reached.
RequestedEnd == hist.t0 + arg.duration
KeepsGoing == time < RequestedEnd \/ stepDone < arg.nstep
C3_LoopRunsWhileEitherBoundOpen ==
  [][ /\ (pc = "loop" /\ stepDone' = stepDone + 1) => KeepsGoing
      /\ (pc = "loop" /\ pc' = "done") => ~KeepsGoing
      /\ (pc = "loop" /\ pc' = "done" /\ arg.duration # 0 /\ arg.nstep # 0)
           => (time' >= RequestedEnd /\ stepDone' >= arg.nstep) ]_vars

\* C3 witness: both bounds requested, the duration reached first, the loop
\* kept alive by the step count alone (last dt = 0), then returned.
C3_Witness ==
  /\ pc = "done" /\ arg.duration = 3 /\ arg.nstep = 3
  /\ stepDone = 3 /\ time = hist.t0 + 3 /\ dt = 0

\* A run_for call has just run up to its loop (or failed in restart).
CallStep == hist'.calls = hist.calls + 1
ClockKept == time' = time /\ step' = step /\ checkpointID' = checkpointID
InitialSwarm == IF hist.initID = None THEN {} ELSE {hist.initID}

\* C2: with a time-valued interval I and a duration D the call makes one
\* initial checkpoint, then exactly one triggered checkpoint at each
\* t0 + k*I <= t0 + D, and none at any other time.
Schedule == {hist.t0 + k * arg.ckVal : k \in 1..MaxTime}
C2_TimeCheckpointsOnSchedule ==
  (pc \in {"loop", "done"} /\ arg.ckMode = "time" /\ arg.duration # 0) =>
     /\ hist.initID # None
     /\ hist.trig \subseteq {t \in Schedule : t <= RequestedEnd}
     /\ hist.ntrig = Cardinality(hist.trig)
     /\ \A t \in Schedule : (t <= time /\ t <= RequestedEnd) => t \in hist.trig

C5_RestartRestoresClock ==
  [][ (CallStep /\ hist'.restart = "ok") =>
        \E N \in IDs : /\ HasSwarm(N)
                       /\ checkpointID' = N
                       /\ time' = swarmFile[N].time
                       /\ step' = swarmFile[N].gstep ]_vars

\* C5 without the step counter: time and checkpointID are restored.
C5_RestartRestoresTimeAndID ==
  [][ (CallStep /\ hist'.restart = "ok") =>
        \E N \in IDs : /\ HasSwarm(N)
                       /\ checkpointID' = N
                       /\ time' = swarmFile[N].time ]_vars

\* C6: N steps with checkpointing, a restart from the checkpoint and M more
\* steps end at the time and step count of an uninterrupted run of N + M
\* steps with the same CFL bounds (each dt being its CFL bound).
PlainSteps(a) == a.nstep # 0 /\ a.duration = 0 /\ Options(a) = {}
C6_RestartRoundTrip ==
  ( /\ pc = "done" /\ hist.calls = 2 /\ hist.restart = "ok" /\ PlainSteps(arg)
    /\ ~(feat.temperature /\ feat.supg) /\ feat.obs = {} )
  => (time = hist.t0 + hist.cflSum /\ step = hist.rstep + stepDone)

\* C8: (as stated) a call without a restart argument restores no checkpoint.
C8_NoRestartArgNoRestore ==
  (hist.calls > 0 /\ hist.rs = -1 /\ hist.rd = "none")
     => hist.restart \in {"notcalled", "empty"}

\* C8 (amended): run_for calls restart iff restartStep is non-zero (its
\* default is -1) and the restart directory exists; when restart is not
\* called or finds the directory empty, the loop starts from the clock in
\* memory.
C8_RestoreIffStepAndDirectory ==
  [][ CallStep =>
        /\ (hist'.restart # "notcalled") <=> (hist'.rs # 0 /\ dirExists)
        /\ hist'.restart \in {"notcalled", "empty"} =>
              (ClockKept /\ pc' = "loop") ]_vars

\* C8 witness: a call with the default restart arguments restored the last
\* checkpoint of the output directory.
C8_Witness ==
  /\ pc = "loop" /\ hist.rs = -1 /\ hist.rd = "none"
  /\ hist.restart = "ok" /\ hist.preTime # time

\* The requested step has no file in the directory.
StepAbsent(rs) == IF rs > 0 THEN FilesOf(rs) = 0 ELSE -rs > Len(indices)
NoFiles == fieldFile = {} /\ \A N \in IDs : swarmFile[N] = NoSwarm

\* C9: (as stated) restart raises whenever the requested step is absent
\* from the directory, and leaves the clock unchanged.
C9_AbsentStepIsFatal ==
  [][ (CallStep /\ hist'.restart # "notcalled" /\ StepAbsent(hist'.rs)) =>
        (pc' = "error" /\ ClockKept) ]_vars

\* C9 (amended): in a directory that holds files, restart raises when the
\* requested step is absent; in an empty directory it returns without an
\* error; the clock is unchanged in both cases.
C9_AbsentStepFatalUnlessEmpty ==
  [][ (CallStep /\ hist'.restart # "notcalled" /\ StepAbsent(hist'.rs)) =>
        /\ ClockKept /\ timeField' = timeField
        /\ IF NoFiles THEN hist'.restart = "empty" /\ pc' = "loop"
                      ELSE /\ hist'.restart = "error" /\ pc' = "error"
                           /\ hist'.rerr \in {"ValueError", "IndexError"} ]_vars

\* C9 witness: the directory holds checkpoint 0 only and step 1 was
\* requested.
C9_Witness ==
  /\ pc = "error" /\ hist.rs = 1 /\ hist.rerr = "ValueError"
  /\ ~NoFiles /\ FilesOf(1) = 0

\* C10: one _update call makes its mutations in the order healing,
\* accumulation, melt, temperature, geometry advance, stress history,
\* tracers, population control then ownership reconciliation, surface
\* processes, timeField, visualisation grid, phase change; an optional one
\* runs iff its feature is configured; all get the same dt; and every
\* particle's timeField grows by exactly dt.
StageOrder ==
  <<"healing", "accumulation", "melt", "temperature", "geometry", "stress",
    "tracers", "popcontrol", "surface", "timeField", "visugrid", "phaseChange">>
Rank(st) == CHOOSE i \in DOMAIN StageOrder : StageOrder[i] = st
Configured(st) ==
  CASE st = "healing" -> feat.healing
    [] st = "melt" -> feat.melt
    [] st = "temperature" -> feat.temperature
    [] st = "stress" -> feat.obs # {}
    [] st = "tracers" -> feat.tracers
    [] st = "surface" -> feat.surface
    [] st = "visugrid" -> feat.visugrid
    [] OTHER -> TRUE
TakesDt(st) == st \notin {"melt", "popcontrol", "phaseChange"}
StageOps(st) == SelectSeq(updLog, LAMBDA e : e.stage = st)
C10_UpdateOrder ==
  pc = "updated" =>
    /\ \A i, j \in DOMAIN updLog :
         i < j => Rank(updLog[i].stage) <= Rank(updLog[j].stage)
    /\ \A k \in DOMAIN StageOrder :
         (StageOps(StageOrder[k]) # <<>>) <=> Configured(StageOrder[k])
    /\ \A k \in DOMAIN StageOrder :
         StageOrder[k] \notin {"geometry", "popcontrol"} => Len(StageOps(StageOrder[k])) <= 1
    /\ StageOps("popcontrol") =
         <<Entry("popcontrol", "repopulate", None),
           Entry("popcontrol", "update_particle_owners", None)>>
    /\ \A i \in DOMAIN updLog :
         (TakesDt(updLog[i].stage) /\ updLog[i].op # "update_particle_owners")
            => updLog[i].dt = dt
    /\ \A p \in Particles : timeField[p] = hist.tfBefore[p] + dt

\* C10 witness: every optional feature configured, mesh advector set.
C10_Witness ==
  /\ pc = "updated" /\ dt = 2 /\ Len(updLog) = 14
  /\ feat.healing /\ feat.melt /\ feat.temperature /\ feat.advector
  /\ feat.obs # {} /\ feat.tracers /\ feat.surface /\ feat.visugrid
  /\ timeField[1] # timeField[2]

\* C13: for a material with viscosity and plasticity the composed viscosity
\* is, before the limiter, the smaller of the viscous and the plastic
\* viscosity, and after it lies within the material's own limits where
\* set, the Model's otherwise; the limiter acts last, on that minimum.
OwnOrModel(own, model) == IF own # 0 THEN own ELSE model
C13_MinThenClamp ==
  pc = "composed" =>
    \A p \in Particles :
      LET m == materials[p]
          r == viscosityFn.at[p]
          V == ViscosityMap(m, fld[p])
          P == PlasticityMap(m, frictionalBCs, fld[p])
          lo == OwnOrModel(m.minViscosity, ModelLimits.minViscosity) * Fine(m)
          hi == OwnOrModel(m.maxViscosity, ModelLimits.maxViscosity) * Fine(m)
      IN  (m.viscosity /\ m.plasticity) =>
            /\ r.pre <= V /\ r.pre <= P /\ r.pre \in {V, P}
            /\ lo <= r.eff /\ r.eff <= hi
            /\ r.eff = (IF r.pre > hi THEN hi ELSE IF r.pre < lo THEN lo ELSE r.pre)

\* C13 witness: the plastic branch is the smaller one and the material's
\* own maximum cuts it.
C13_Witness ==
  /\ pc = "composed"
  /\ materials[1].viscosity /\ materials[1].plasticity
  /\ materials[1].maxViscosity = 2 /\ materials[1].minViscosity = 0
  /\ fld[1].muP = 3 /\ fld[1].muV = MaxVisc /\ ~fld[1].mask
  /\ viscosityFn.at[1].pre = 3 * Fine(materials[1])
  /\ viscosityFn.at[1].eff = 2 * Fine(materials[1])

\* C14: whenever a material of the list declares elasticity and no
\* viscosity, whatever the others declare, the composition raises and
\* returns no function.
C14_ElasticWithoutViscosityFails ==
  (pc \in {"composed", "error"}
     /\ \E i \in DOMAIN materials :
          materials[i].elasticity /\ ~materials[i].viscosity)
  => /\ pc = "error"
     /\ ~viscosityFn.ok /\ viscosityFn.err = "ValueError"
     /\ \A p \in Particles : viscosityFn.at[p] = NoValue

\* C14 witness: the first material is complete, the second one declares
\* elasticity alone.
C14_Witness ==
  /\ pc = "error" /\ viscosityFn.err = "ValueError"
  /\ materials[1].viscosity /\ materials[1].plasticity /\ materials[1].elasticity
  /\ materials[2].elasticity /\ ~materials[2].viscosity

\* C15: the melt-weakening factor is 1 below X1, viscosityChange above X2
\* and linear between; it is 1 at X1 and viscosityChange at X2, has no jump
\* and is monotonic in the melt fraction; it multiplies the viscosity
\* composed from the viscous and elastic steps. (Factors times Fine(m).)
Factor(m, x) ==
  IF x < m.viscosityChangeX1 THEN Fine(m)
  ELSE IF x > m.viscosityChangeX2
    THEN m.viscosityChange * (m.viscosityChangeX2 - m.viscosityChangeX1)
  ELSE Fine(m) + (m.viscosityChange - Unit) * (x - m.viscosityChangeX1)
Abs(x) == IF x < 0 THEN -x ELSE x
C15_MeltWeakening ==
  pc = "composed" =>
    \A p \in Particles :
      LET m == materials[p]
          base == IF m.elasticity THEN fld[p].muVE ELSE fld[p].muV
      IN  (m.melt /\ m.viscosity) =>
            /\ viscosityFn.at[p].bg = base * Factor(m, fld[p].melt)
            /\ MeltModifier(m, m.viscosityChangeX1) = Fine(m)
            /\ MeltModifier(m, m.viscosityChangeX2)
                 = m.viscosityChange * (m.viscosityChangeX2 - m.viscosityChangeX1)
            /\ \A x \in 0..(MaxMelt - 1) :
                 /\ Abs(MeltModifier(m, x + 1) - MeltModifier(m, x))
                      <= Abs(m.viscosityChange - Unit)
                 /\ m.viscosityChange >= Unit
                      => MeltModifier(m, x) <= MeltModifier(m, x + 1)
                 /\ m.viscosityChange <= Unit
                      => MeltModifier(m, x) >= MeltModifier(m, x + 1)

\* C15 witness: a melt fraction strictly between the breakpoints, a
\* weakening factor below 1, an elastic material.
C15_Witness ==
  /\ pc = "composed"
  /\ materials[1].melt /\ materials[1].elasticity
  /\ materials[1].viscosityChangeX2 = 3 /\ materials[1].viscosityChange = 1
  /\ fld[1].melt = 2 /\ fld[1].muVE = 2
  /\ viscosityFn.at[1].bg = 2 * (Fine(materials[1]) + (1 - Unit))

\* C11: plasticStrain is never negative; one _update subtracts
\* healingRate * dt, floors at zero, then adds yielding * dt, so that an
\* accumulation equal to the healing decrement returns a strain that was
\* at least that decrement exactly to its value before the healing.
AnyHealing == \E i \in DOMAIN materials : materials[i].healingRate # 0
Floor0(x) == IF x < 0 THEN 0 ELSE x
C11_PlasticStrainHealThenAccumulate ==
  /\ \A p \in Particles : plasticStrain[p] >= 0
  /\ (pc = "presolve" /\ step > 0) =>
       \A p \in Particles :
         LET before == hist.psBefore[p]
             h == IF AnyHealing THEN dt * materials[p].healingRate ELSE 0
             y == dt * viscosityFn.at[p].yield
         IN  /\ plasticStrain[p] = Floor0(before - h) + y
             /\ (y = h /\ before >= h) => plasticStrain[p] = before

\* C11 witness: the healing decrement exceeds the strain, the floor acts,
\* and the accumulation of the same size leaves more than before.
C11_Witness ==
  /\ pc = "presolve" /\ step > 0 /\ dt = 2
  /\ materials[1].healingRate = 1 /\ viscosityFn.at[1].yield = 1
  /\ hist.psBefore[1] = 1 /\ plasticStrain[1] = 2

\* C12: in a composition made once a solution exists a particle is flagged
\* as yielding iff its effective viscosity is strictly below its
\* background viscosity or its material is plastic-only; in a composition
\* made before the first solve has completed the diagnostic is zero for
\* every particle, and the _update that follows adds no plastic strain.
C12_YieldingDiagnostic ==
  /\ pc = "solved" =>
       \A p \in Particles :
         LET r == viscosityFn.at[p]
             m == materials[p]
         IN  IF hist.existed
               THEN /\ r.flag \in {0, 1}
                    /\ r.flag = 1 <=> (r.eff < r.bg \/ (m.plasticity /\ ~m.viscosity))
                    /\ r.yield = r.flag * fld[p].sr
               ELSE r.flag = 0 /\ r.yield = 0
  /\ (pc = "presolve" /\ step > 0 /\ ~hist.existed) =>
       \A p \in Particles :
         plasticStrain[p] =
           Floor0(hist.psBefore[p]
                  - (IF AnyHealing THEN dt * materials[p].healingRate ELSE 0))

\* C12 witness: the second composition flags a visco-plastic particle whose
\* plastic branch is the lower one, and does not flag the viscous one.
C12_Witness ==
  /\ pc = "solved" /\ step = 1 /\ hist.existed
  /\ materials[1].viscosity /\ materials[1].plasticity
  /\ fld[1].muP = 1 /\ fld[1].muV = 3 /\ fld[1].sr = 1
  /\ viscosityFn.at[1].flag = 1 /\ viscosityFn.at[2].flag = 0
  /\ plasticStrain = hist.psBefore

\* ------------------------------------------------------------ C16
\* The number of iterations the simulation had completed when the last
\* solve began: the checkpoint's step count plus the iterations since a
\* restart, else the Model's own count.
SimStep ==
  IF hist.restart = "ok" THEN hist.rstep + hist.sdBefore ELSE hist.stepBefore

\* C16: a solve uses the initial tolerance and iteration bounds exactly
\* when it is the very first solve of the run (no iteration of the
\* simulation completed before it), the standard ones at every later solve.
C16_InitialParamsOnFirstSolveOnly ==
  hist.tol # "none" => (hist.tol = "initial" <=> SimStep = 0)

\* C16 on the Model's own counter: initial parameters exactly when
\* Model.step was 0 at the solve.
C16_InitialParamsIffStepZero ==
  hist.tol # "none" => (hist.tol = "initial" <=> hist.stepBefore = 0)

\* ------------------------------------------------------------ C17
InLoop == pc = "loop"
CompletedIteration == InLoop /\ stepDone' = stepDone + 1

\* C17: a completed iteration runs pre-hook, solve, timestep selection,
\* advance, clock advance, checkpoint decision, post-hook in that order: the
\* solve sees the step count before the advance, _update gets the dt chosen
\* in the same iteration, and the files of the iteration carry the advanced
\* clock. The clock advance adds that dt to time and 1 to step, once. While
\* the loop runs time never decreases, step is the number of completed
\* iterations added to its value at entry whatever the checkpoints were,
\* and checkpointID changes only by +1, with the field files of the new ID
\* written by the trigger.
C17_IterationOrderAndClock ==
  [][ InLoop =>
        /\ time' >= time /\ step' >= step /\ checkpointID' >= checkpointID
        /\ step' = hist'.step0 + stepDone'
        /\ checkpointID' # checkpointID =>
              /\ CompletedIteration
              /\ checkpointID' = checkpointID + 1
              /\ hist'.lastTrig
              /\ checkpointID' \in fieldFile'
        /\ CompletedIteration =>
              /\ hist'.order = <<"preSolveHook", "solve", "dt", "_update", "clock",
                                 "checkpoint", "postSolveHook">>
              /\ hist'.stepBefore = step
              /\ dt' >= 0
              /\ timeField' = [p \in Particles |-> timeField[p] + dt']
              /\ \A i \in DOMAIN updLog' : updLog'[i].dt \in {dt', None}
              /\ time' = time + dt' /\ step' = step + 1
              /\ swarmFile' # swarmFile =>
                    swarmFile'[checkpointID'] = [time |-> time', gstep |-> step']
        /\ ~CompletedIteration =>
              time' = time /\ step' = step /\ stepDone' = stepDone ]_vars

\* C17 witness: a second iteration has completed with a non-zero timestep
\* and triggered a checkpoint, after an earlier one.
C17_Witness ==
  /\ InLoop /\ stepDone >= 2 /\ dt > 0 /\ hist.lastTrig
  /\ hist.order = Iteration /\ checkpointID >= 1 /\ hist.ntrig >= 1

\* ------------------------------------------------------------ C19
NeitherBound == arg.duration = 0 /\ arg.nstep = 0

\* C19: in a run_for call with neither a duration nor a step count the loop
\* body never runs (no solve, no _update, no iteration counted) and, through
\* the call and after it, time, step and checkpointID are what they were
\* when the loop was reached: the restored checkpoint's time and ID after a
\* restart, the values the Model had before the call otherwise.
C19_NeitherBoundNoIteration ==
  (pc \in {"loop", "done"} /\ NeitherBound) =>
     /\ stepDone = 0 /\ hist.tol = "none" /\ hist.order = <<>>
     /\ step = hist.preStep
     /\ IF hist.restart = "ok"
          THEN /\ hist.rs > 0 => checkpointID = hist.rs
               /\ HasSwarm(checkpointID) /\ time = swarmFile[checkpointID].time
          ELSE time = hist.preTime /\ checkpointID = hist.preID

\* C19 witness: such a call has returned after a restart that changed the
\* clock, and its initial checkpoint was written.
C19_Witness ==
  /\ pc = "done" /\ NeitherBound /\ hist.restart = "ok"
  /\ time # hist.preTime /\ hist.initID = checkpointID

\* ------------------------------------------------------------ C20
MinObservationTime == Min(feat.obs)
\* The total stress at particle p for the stress history the iteration
\* began with.
CurrentStress(p) ==
  StressFn(materials[p],
           StressUnit * ViscousStress(materials[p], frictionalBCs, fld[p], TRUE),
           hist.prevBefore[p])

\* C20: with an elastic material, the dt an iteration selected is at most a
\* third of the smallest observation time, so phi = dt / minObservationTime
\* lies in [0, 1/3], and the iteration leaves
\* previousStress = previousStress * (1 - phi) + phi * currentStress, with
\* currentStress the stress for the previousStress the iteration began with.
C20_ElasticCapAndStressBlend ==
  (Stepped /\ feat.obs # {}) =>
     /\ 0 <= dt /\ 3 * dt <= MinObservationTime
     /\ \A p \in Particles :
          previousStress[p] * MinObservationTime
            = hist.prevBefore[p] * (MinObservationTime - dt) + dt * CurrentStress(p)

\* C20 witness: a second iteration ran at the elastic cap (phi = 1/3) on a
\* deforming elastic particle with a stress history, and changed it.
C20_Witness ==
  /\ Stepped /\ stepDone >= 2 /\ feat.obs # {}
  /\ 3 * dt = MinObservationTime
  /\ hist.prevBefore[1] # 0 /\ fld[1].sr = 1
  /\ previousStress[1] # hist.prevBefore[1]


\* ------------------------------------------------------------ C18
Waiting(r) ==
  /\ procs[r].status = "run" /\ procs[r].todo # <<>>
  /\ Head(procs[r].todo) \in BarrierSites
PendingWrite(r) ==
  \E i \in DOMAIN procs[r].todo : procs[r].todo[i] \in WriteSites

\* C18: the processes of a parallel run_for call, given the same arguments
\* and the same timesteps, return from the same barrier calls in the same
\* order; none waits at a barrier while another has left run_for; and none
\* is in a later iteration than a process that still has files of its
\* current iteration to write.
C18_SameBarrierSequence ==
  \A r, s \in Ranks :
     /\ procs[r].log = procs[s].log
     /\ Waiting(r) => procs[s].status = "run"
     /\ (procs[r].iter > procs[s].iter /\ procs[s].iter >= 1) => ~PendingWrite(s)

\* C18 witness: both processes have left run_for after a restart, two
\* iterations and field and swarm checkpoints inside the loop.
C18_Witness ==
  \A r \in Ranks :
     /\ procs[r].status = "done" /\ procs[r].iter >= 2
     /\ procs[r].time > 2
     /\ \E i \in DOMAIN procs[r].log : procs[r].log[i] = "b1583"
     /\ \E i, j \in DOMAIN procs[r].log :
          /\ procs[r].log[i] = "b1667" /\ i < j
          /\ procs[r].log[j] = "b2060"
     /\ \E i, j \in DOMAIN procs[r].log :
          /\ procs[r].log[i] = "b1686" /\ i < j
          /\ procs[r].log[j] = "b2126"

\* ------------------------------------------------------------ C21
\* The listed checkpoint times not yet passed when the last iteration began.
RemainingGaps == {v - hist.tBefore : v \in arg.ctimes} \cap Nat

BoundsWithoutCheckpoint ==
       {AdvectiveBound(hist.cfl)}
  \cup (IF feat.temperature /\ feat.supg THEN {SupgBound(hist.supg)} ELSE {})
  \cup (IF endT # 0 THEN {endT - hist.tBefore} ELSE {})
  \cup (IF arg.dt # 0 THEN {arg.dt} ELSE {})
  \cup (IF arg.ctimes # {} THEN {Min(Gaps(arg, hist.tBefore))} ELSE {})
  \cup (IF feat.obs # {} THEN {ElasticBound(feat)} ELSE {})

\* C22: with a step-count checkpoint_interval k, the iterations of a run_for
\* call that trigger a checkpoint are exactly the k-th, 2k-th, 3k-th, ...:
\* the last iteration triggered iff its number is a multiple of k, the
\* triggers so far are stepDone div k, each raised checkpointID by one, and
\* the dt selected is the minimum of the bounds other than a checkpoint
\* distance.
C22_StepCountCheckpoints ==
  (Stepped /\ arg.ckMode = "step") =>
     /\ hist.lastTrig <=> stepDone % arg.ckVal = 0
     /\ hist.ntrig = stepDone \div arg.ckVal
     /\ checkpointID = hist.initID + hist.ntrig
     /\ nextCk = arg.ckVal * (hist.ntrig + 1)
     /\ dt = Min(BoundsWithoutCheckpoint)

\* C22 witness: in a call that began with the clock past zero, the k-th
\* iteration triggered and the next one did not.
C22_Witness ==
  /\ Stepped /\ arg.ckMode = "step" /\ hist.t0 > 0
  /\ stepDone = arg.ckVal + 1 /\ hist.ntrig = 1 /\ ~hist.lastTrig
  /\ time > hist.t0

\* ------------------------------------------------------------ C23
\* The collaborator calls of the geometry advance of the last _update.
GeometryOps == [i \in DOMAIN StageOps("geometry") |-> StageOps("geometry")[i].op]
FreeSurfaceAdvance ==
  <<"integrate_no_owners", "freeSurface_solve", "update_particle_owners">>

\* C23: with a free surface the geometry advance of _update is: advect the
\* particles without reconciling their ownership, solve the free surface,
\* reconcile the ownership, whatever else is configured (a mesh advector
\* included).
C23_FreeSurfaceAdvanceAlways ==
  (pc = "updated" /\ feat.freeSurface) => GeometryOps = FreeSurfaceAdvance

\* C23 where no mesh advector is set: the free-surface sequence is run; with
\* a mesh advector the advector's branch is run instead.
C23_FreeSurfaceAdvanceUnlessAdvector ==
  (pc = "updated" /\ feat.freeSurface) =>
     IF feat.advector
       THEN GeometryOps = <<"integrate_update_owners", "advect_mesh">>
       ELSE GeometryOps = FreeSurfaceAdvance

\* ------------------------------------------- material registry and painting
\* A second model of the material list, for add_material and
\* _phaseChangeFn: each material carries its index, its shape (None or the
\* particles inside it) and its phase_changes (a list of rules,
\* each a trigger mask and a result index).
MaxMat == 2
Indices == 0 .. MaxMat
\* shape=None, or a shape whose fn holds on the particles inside
NoShape == [given |-> FALSE, inside |-> {}]
Shapes == {[given |-> TRUE, inside |-> s] : s \in {{1}, {1, 2}}}

\* a phase change: fn() evaluates to 1 on the particles of mask
PhaseChanges == [mask : {{1}, {1, 2}}, result : Indices]
RuleLists ==
  {<<>>}
  \cup {<<r>> : r \in {x \in PhaseChanges : x.mask = {1}}}
  \cup {<<a, b>> : a \in {x \in PhaseChanges : x.mask = {1, 2}},
                   b \in {x \in PhaseChanges : x.mask = {1}}}

\* Model.__init__, lines 199-201: the Model is a Material and the only
\* member of its own list.
ModelMaterial == [index |-> ModelIndex, shape |-> NoShape, phase_changes |-> <<>>]

\* Material(): the next free index.
NextIndex(ms) == Len(ms)

NewestLast(ms, mat) == Append(ms, mat)

\* lines 974-976: reverse, append, reverse -- the new material goes first
Register(ms, mat) == <<mat>> \o ms

PaintAll(field, reset, shape, index) ==
  [p \in Particles |-> IF shape.given THEN index
                       ELSE IF reset THEN ModelIndex ELSE field[p]]

\* lines 949-950 and 978-984: optional reset to the Model's index, then the
\* conditional [(shape.fn, index), (True, materialField)]
Paint(field, reset, shape, index) ==
  [p \in Particles |-> IF shape.given /\ p \in shape.inside THEN index
                       ELSE IF reset THEN ModelIndex ELSE field[p]]

ApplyToSnapshot(live, start, owner, change) ==
  [p \in Particles |-> IF p \in change.mask /\ start[p] = owner
                       THEN change.result ELSE live[p]]

\* lines 1378-1382: conds = (mask == 1) & (materialField.data == index),
\* materialField.data[conds] = result; the field read is the live one
ApplyChange(live, start, owner, change) ==
  [p \in Particles |-> IF p \in change.mask /\ live[p] = owner
                       THEN change.result ELSE live[p]]

\* lines 1375-1377: materials in list order, each one's changes in order
RECURSIVE PhaseChangeFrom(_, _, _, _, _)
PhaseChangeFrom(ms, mi, ri, live, start) ==
  IF mi > Len(ms) THEN <<>>
  ELSE IF ri > Len(ms[mi].phase_changes)
       THEN PhaseChangeFrom(ms, mi + 1, 1, live, start)
       ELSE LET after == ApplyChange(live, start, ms[mi].index,
                                     ms[mi].phase_changes[ri])
            IN  <<[mi |-> mi, ri |-> ri, before |-> live, after |-> after]>>
                \o PhaseChangeFrom(ms, mi, ri + 1, after, start)

NoAdd == [shape |-> NoShape, reset |-> FALSE, before |-> Unpainted,
          listBefore |-> <<>>, index |-> None]

InitM ==
  /\ feat = Plain
  /\ time = 0 /\ step = 0 /\ checkpointID = 0 /\ dt = None
  /\ timeField = ZeroTF /\ updLog = <<>>
  /\ dirExists = FALSE /\ swarmFile = NoSwarms /\ fieldFile = {} /\ fieldTime = NoFieldTimes
  /\ pc = "build" /\ arg = NoAdd /\ stepDone = 0 /\ endT = 0 /\ nextCk = None
  /\ hist = NoHist
  /\ materials = <<ModelMaterial>> /\ frictionalBCs = FALSE
  /\ fld = NoParticleFields /\ viscosityFn = NotComposed
  /\ plasticStrain = ZeroStrain
  /\ solutionExist = FALSE
  /\ previousStress = NoStress /\ procs = NoProcs /\ materialField = Unpainted

\* add_material, lines 931-986, followed by the user's declaration of the
\* new material's phase_changes.
AddMaterial ==
  /\ pc = "build" /\ Len(materials) <= MaxMat
  /\ \E shape \in Shapes \cup {NoShape}, reset \in Bools, changes \in RuleLists :
       LET index == NextIndex(materials)
           mat == [index |-> index, shape |-> shape, phase_changes |-> changes]
       IN  /\ materials' = Register(materials, mat)
           /\ materialField' = Paint(materialField, reset, shape, index)
           /\ arg' = [shape |-> shape, reset |-> reset, before |-> materialField,
                      listBefore |-> materials, index |-> index]
  /\ UNCHANGED <<feat, time, step, checkpointID, dt, timeField, updLog,
                 dirExists, swarmFile, fieldFile, pc, stepDone, endT, nextCk,
                 hist, frictionalBCs, solutionExist, fld, viscosityFn,
                 plasticStrain, previousStress, procs, fieldTime>>

\* _phaseChangeFn, lines 1374-1382, as one call.
PhaseChange ==
  /\ pc = "build"
  /\ LET trace == PhaseChangeFrom(materials, 1, 1, materialField, materialField)
     IN  /\ hist' = [hist EXCEPT !.order = trace]
         /\ materialField' = IF trace = <<>> THEN materialField
                             ELSE trace[Len(trace)].after
  /\ pc' = "changed"
  /\ arg' = [arg EXCEPT !.before = materialField]
  /\ UNCHANGED <<feat, time, step, checkpointID, dt, timeField, updLog,
                 dirExists, swarmFile, fieldFile, stepDone, endT, nextCk,
                 materials, frictionalBCs, solutionExist, fld, viscosityFn,
                 plasticStrain, previousStress, procs, fieldTime>>

NextM == AddMaterial \/ PhaseChange

SpecM == InitM /\ [][NextM]_vars

\* C24: a _phaseChangeFn call applies the rules one after another, the
\* materials in the order of the material list and each material's rules in
\* the order declared; every rule starts from the field the rule before it
\* left, and gives its result to exactly the particles where its trigger
\* fires and whose materialField at that moment is the index of the
\* material that owns the rule, leaving every other particle alone.
RuleOf(e) == materials[e.mi].phase_changes[e.ri]
C24_PhaseChangeLiveMembership ==
  pc = "changed" =>
    LET tr == hist.order
    IN  /\ {<<tr[i].mi, tr[i].ri>> : i \in DOMAIN tr}
             = {<<mi, ri>> \in (DOMAIN materials) \X (1 .. 2) :
                  ri <= Len(materials[mi].phase_changes)}
        /\ \A i, j \in DOMAIN tr :
             i < j => \/ tr[i].mi < tr[j].mi
                      \/ tr[i].mi = tr[j].mi /\ tr[i].ri < tr[j].ri
        /\ \A i \in DOMAIN tr :
             /\ tr[i].before = IF i = 1 THEN arg.before ELSE tr[i - 1].after
             /\ \A p \in Particles :
                  tr[i].after[p] =
                    IF p \in RuleOf(tr[i]).mask
                       /\ tr[i].before[p] = materials[tr[i].mi].index
                    THEN RuleOf(tr[i]).result ELSE tr[i].before[p]
        /\ materialField = IF tr = <<>> THEN arg.before ELSE tr[Len(tr)].after

\* a particle moved by a rule of one material and moved again, in the same
\* call, by a rule of a material later in the list
C24_Witness ==
  /\ pc = "changed"
  /\ \E i, j \in DOMAIN hist.order, p \in Particles :
       /\ hist.order[i].mi < hist.order[j].mi
       /\ hist.order[i].before[p] # hist.order[i].after[p]
       /\ hist.order[j].before[p] # hist.order[j].after[p]
       /\ arg.before[p] # materials[hist.order[j].mi].index

DeclaredSteps(m, f) ==
  LET V == (IF m.elasticity THEN f.muVE ELSE f.muV)
             * (IF m.melt THEN Factor(m, f.melt) ELSE Fine(m))
      P == (IF frictionalBCs /\ f.mask THEN f.muF ELSE f.muP) * Fine(m)
  IN  IF m.viscosity /\ m.plasticity THEN Min2(V, P)
      ELSE IF m.viscosity THEN V ELSE P
StepsAsDeclared ==
  /\ pc = "composed" /\ viscosityFn.ok
  /\ \A p \in Particles :
       (materials[p].viscosity \/ materials[p].plasticity)
         => viscosityFn.at[p].pre = DeclaredSteps(materials[p], fld[p])
C26_EveryCombinationComposes ==
  (pc \in {"composed", "error"} /\ ~ElasticNotViscous(materials))
    => StepsAsDeclared

\* C26, as the code has it: the same whenever no material declares melt
\* without viscosity; when one does the composition raises KeyError.
C26_ComposesUnlessMeltWithoutViscosity ==
  (pc \in {"composed", "error"} /\ ~ElasticNotViscous(materials))
    => IF \E i \in DOMAIN materials : materials[i].melt /\ ~materials[i].viscosity
         THEN pc = "error" /\ viscosityFn.err = "KeyError"
         ELSE StepsAsDeclared


\* ------------------------------------- _viscosityFn: the plastic branch
\* The plastic step in detail. Strain rates are in units of 1e-20 (the
\* non-dimensional number the solver holds), yield stresses in Pa, and a
\* yield viscosity 0.5 * yieldStress / eij in units of 1e20 Pa s.
StrainRateFloor == 1
\* line 242: defaultStrainRate = 1e-15 / u.second
DefaultStrainRate == 100000
\* the time scaling coefficient, in seconds: nd(x / u.second) = x * ts
TimeScales == {1, 2}

YieldStresses == {4000000, 10000000, 20000000}
StressLimits == {0, 4000000}          \* 0: no stressLimiter set
StrainRates == {0, 1, 2, 1000000}
EffectiveStrainRates == {2, 4}

\* StressLimiter(limit).apply(yieldStress): the stress, capped
StressLimiterApply(limit, ys) == Min2(ys, limit)

\* lines 1195-1200: the material's limiter, else the Model's, else none
LimitedYieldStress(a, ys) ==
  IF a.matLimiter # 0 THEN StressLimiterApply(a.matLimiter, ys)
  ELSE IF a.modelLimiter # 0 THEN StressLimiterApply(a.modelLimiter, ys)
  ELSE ys

\* lines 1202-1213: the invariant of the effective strain rate for an
\* elastic material, the strain-rate invariant otherwise
SRInv(m, a) == IF m.elasticity THEN a.srEff ELSE a.sr

\* the floor taken from the default strain rate (as _yieldStressFn, 1371)
EijDefaultRate(sr, ts) ==
  IF sr < DefaultStrainRate * ts THEN DefaultStrainRate * ts ELSE sr
\* lines 1215-1217: eij, floored at nd(1e-20 / u.second)
Eij(sr, ts) ==
  IF sr < StrainRateFloor * ts THEN StrainRateFloor * ts ELSE sr

\* lines 1240-1242: eij of the frictional branch, floored at 1e-20
EijFrictional(sr) == IF sr <= StrainRateFloor THEN StrainRateFloor ELSE sr

\* 0.5 * yieldStress / eij (lines 1219, 1244)
HalfOver(ys, e) == ys \div (2 * e)

\* lines 1183-1220: muEff of the material's own plasticity
YieldViscosity(m, a) ==
  HalfOver(LimitedYieldStress(a, a.ysOwn), Eij(SRInv(m, a), a.ts))

\* lines 1229-1244: muEff with the boundary's friction coefficient
FrictionalYieldViscosity(a) == HalfOver(a.ysBC, EijFrictional(a.sr))

PlasticKinds ==
  { Material(v, TRUE, el, FALSE, 2, 1, 0, 0, 0) :
      v \in Bools, el \in Bools } \ {Material(FALSE, TRUE, TRUE, FALSE, 2, 1, 0, 0, 0)}

PlasticArgs ==
  [ysOwn : YieldStresses, ysBC : YieldStresses, matLimiter : StressLimits,
   modelLimiter : StressLimits, sr : StrainRates, srEff : EffectiveStrainRates,
   ts : TimeScales, mask : Bools]

InitY ==
  /\ feat = Plain
  /\ time = 0 /\ step = 0 /\ checkpointID = 0 /\ dt = None
  /\ timeField = ZeroTF /\ updLog = <<>>
  /\ dirExists = FALSE /\ swarmFile = NoSwarms /\ fieldFile = {} /\ fieldTime = NoFieldTimes
  /\ pc = "compose" /\ stepDone = 0 /\ endT = 0 /\ nextCk = None
  /\ hist = NoHist
  /\ \E m \in PlasticKinds : materials = <<m, ViscousOnly>>
  /\ frictionalBCs \in Bools
  /\ solutionExist \in Bools
  /\ arg \in PlasticArgs
  /\ materials[1].elasticity \/ arg.srEff = 2
  /\ frictionalBCs \/ (~arg.mask /\ arg.ysBC = 10000000)
  /\ fld = NoParticleFields /\ viscosityFn = NotComposed
  /\ plasticStrain = ZeroStrain /\ previousStress = NoStress /\ procs = NoProcs /\ materialField = Unpainted

\* Model._viscosityFn (lines 1136-1313) with the plastic step computed
\* from the yield stresses and the strain rate.
ComposeY ==
  /\ pc = "compose"
  /\ \E muV \in {3, 10000000} :
       LET m == materials[1]
           f1 == [muV |-> IF m.viscosity THEN muV ELSE 0,
                  muVE |-> IF m.elasticity THEN muV ELSE 0,
                  muP |-> YieldViscosity(m, arg),
                  muF |-> IF frictionalBCs THEN FrictionalYieldViscosity(arg) ELSE 0,
                  mask |-> arg.mask, melt |-> 0, sr |-> arg.sr]
           f2 == [NoFields EXCEPT !.muV = 3, !.mask = arg.mask, !.sr = arg.sr]
           fs == [p \in Particles |-> IF p = 1 THEN f1 ELSE f2]
           r == Compose(materials, frictionalBCs, fs, solutionExist)
       IN  /\ fld' = fs
           /\ viscosityFn' = r
           /\ pc' = IF r.ok THEN "composed" ELSE "error"
  /\ UNCHANGED <<feat, time, step, checkpointID, dt, timeField, updLog, dirExists,
                 swarmFile, fieldFile, arg, stepDone, endT, nextCk, hist,
                 materials, frictionalBCs, solutionExist, plasticStrain,
                 previousStress, procs, materialField, fieldTime>>

NextY == ComposeY

SpecY == InitY /\ [][NextY]_vars

\* C27: the yield viscosity of a plastic material, where no frictional
\* boundary acts, is 0.5 * yieldStress / max(strain-rate invariant, floor)
\* with the floor 1e-20 per second (the invariant of the effective strain
\* rate when the material is elastic, the yield stress after the stress
\* limiter); the default strain rate plays no part. For a plastic-only
\* material it is the viscosity before the limiter, and the particle is
\* flagged yielding once a solution exists.
Max2(x, y) == IF x >= y THEN x ELSE y
C27_YieldViscosityFixedFloor ==
  pc = "composed" =>
    LET m == materials[1]
        P == PlasticityMap(m, frictionalBCs, fld[1])
        e == Max2(SRInv(m, arg), StrainRateFloor * arg.ts)
    IN  ~(frictionalBCs /\ arg.mask) =>
          /\ 2 * e * P = LimitedYieldStress(arg, arg.ysOwn) * Fine(m)
          /\ ~m.viscosity =>
               /\ viscosityFn.at[1].pre = P
               /\ solutionExist => viscosityFn.at[1].flag = 1

\* C27 witness: yield stress 1e7 and strain rate 1e-14 give 5e20 for a
\* plastic-only material, flagged yielding.
C27_Witness ==
  /\ pc = "composed" /\ solutionExist /\ ~frictionalBCs
  /\ ~materials[1].viscosity
  /\ arg.ysOwn = 10000000 /\ arg.sr = 1000000 /\ arg.ts = 1
  /\ arg.matLimiter = 0 /\ arg.modelLimiter = 0
  /\ viscosityFn.at[1].pre = 5 * Fine(materials[1])
  /\ viscosityFn.at[1].flag = 1

\* C28: with frictional boundaries the plastic viscosity is the regular
\* yield viscosity where the mask is not positive and, where it is, the
\* yield viscosity of the boundary's friction coefficient computed as the
\* regular one is: same stress limiter, same strain-rate invariant, same
\* floor. A material without plasticity is not affected.
C28_FrictionalBlendSameRecipe ==
  (pc = "composed" /\ frictionalBCs) =>
    LET m == materials[1]
        P == PlasticityMap(m, frictionalBCs, fld[1])
        e == Max2(SRInv(m, arg), StrainRateFloor * arg.ts)
        ys == IF arg.mask THEN arg.ysBC ELSE arg.ysOwn
    IN  /\ 2 * e * P = LimitedYieldStress(arg, ys) * Fine(m)
        /\ viscosityFn.at[2].pre = ViscosityMap(materials[2], fld[2])

\* C28, as the code has it: under the mask the yield stress of the
\* boundary's friction coefficient is not limited, the strain rate is the
\* plain invariant also for an elastic material, and the floor is 1e-20
\* without the time scaling.
C28_FrictionalBlendAsCoded ==
  (pc = "composed" /\ frictionalBCs) =>
    LET m == materials[1]
        P == PlasticityMap(m, frictionalBCs, fld[1])
    IN  /\ arg.mask
             => 2 * Max2(arg.sr, StrainRateFloor) * P = arg.ysBC * Fine(m)
        /\ ~arg.mask
             => 2 * Max2(SRInv(m, arg), StrainRateFloor * arg.ts) * P
                  = LimitedYieldStress(arg, arg.ysOwn) * Fine(m)
        /\ viscosityFn.at[2].pre = ViscosityMap(materials[2], fld[2])


\* C29: a restart with a negative step -k that restores a checkpoint
\* restores the k-th last of the distinct checkpoints that have files in
\* the directory: -1 the last one, -2 the one before it.
Available == {N \in IDs : FilesOf(N) > 0}
KthLast(S, k) == CHOOSE x \in S : Cardinality({y \in S : y > x}) = k - 1
C29_NegativeStepFromEnd ==
  [][ (CallStep /\ hist'.restart = "ok" /\ hist'.rs < 0) =>
        /\ Cardinality(Available) >= -hist'.rs
        /\ checkpointID' = KthLast(Available, -hist'.rs) ]_vars

\* C29, as the code has it: the list holds one entry per file, so -1 gives
\* the last checkpoint and -2 gives it again whenever it has two files.
C29_NegativeStepCountsFiles ==
  [][ (CallStep /\ hist'.restart = "ok" /\ hist'.rs < 0) =>
        checkpointID' = KthLast(Available, IF FilesOf(KthLast(Available, 1)) >= -hist'.rs
                                             THEN 1 ELSE 2) ]_vars


\* C30: in a run_for call given a duration the clock never passes the
\* requested end (the time at the start of the loop plus the duration),
\* and when the call returns the clock is exactly at it, also when the
\* step count kept the loop going after the end was reached.
C30_DurationReachedExactly ==
  (pc \in {"loop", "done", "error"} /\ hist.calls > 0 /\ arg.duration # 0) =>
    /\ time <= RequestedEnd
    /\ pc \in {"loop", "done"} => endT = RequestedEnd
    /\ pc = "done" => time = RequestedEnd

\* C30 witness: the call returned after an iteration that the step count
\* alone asked for and that left the clock at the end.
C30_Witness ==
  /\ pc = "done" /\ arg.duration # 0 /\ arg.nstep = stepDone /\ stepDone > 1
  /\ hist.tBefore = RequestedEnd /\ time = RequestedEnd /\ dt = 0


\* C31: the collaborators' bounds, the intervals, the user dt and the
\* observation times all being positive, every iteration of the loop
\* selects a dt above zero, so the clock grows at every iteration.
C31_EveryIterationAdvances ==
  Stepped => (dt > 0 /\ time > hist.tBefore)

\* C31, as the code has it: dt is never negative, and it is zero exactly
\* when the clock stood at the local end time with the end bound applied
\* (also without a requested duration, or with steps still to do), or
\* stood on a listed checkpoint time.
C31_ZeroDtAtEndOrListedTime ==
  Stepped =>
    /\ dt >= 0 /\ time = hist.tBefore + dt
    /\ dt = 0 <=> \/ EndBoundActive(arg, endT) /\ hist.tBefore = endT
                  \/ hist.tBefore \in arg.ctimes


\* The loop is kept alive by the time bound alone and the timestep
\* selection gives dt = 0 whatever the collaborators answer.
Stalled ==
  /\ pc = "loop" /\ time < endT /\ stepDone >= arg.nstep
  /\ \A cfl \in 1..MaxCfl, supgIn \in 1..MaxCfl :
       LET sel == SelectDt(arg, feat, time, endT, nextCk, cfl, supgIn)
       IN  sel.ok /\ sel.dt = 0
RaisedInLoop ==
  pc = "error" /\ hist.restart # "error" /\ hist.rerr = "IndexError"

\* C32: a run_for call with a duration and/or a step count reaches its
\* return whatever checkpoint_interval, checkpoint_times and user dt are:
\* no iteration raises, and the loop is never left with the time bound
\* open and no way for the clock to advance.
C32_CallReachesDone == ~Stalled /\ ~RaisedInLoop

\* Once stalled the loop stays stalled: every further iteration leaves the
\* clock where it is and the time bound open.
C32_StalledForever == [][Stalled => Stalled']_vars


\* C37: with a checkpoint_times list the timestep selection gives a dt at
\* every clock time at which the loop runs an iteration, also once every
\* listed time is past; it never raises.
SelectionsAt ==
  {SelectDt(arg, feat, time, endT, nextCk, cfl, supgIn) :
     cfl \in 1..MaxCfl, supgIn \in 1..MaxCfl}
Iterating == pc = "loop" /\ LoopCond(time, endT, stepDone, arg.nstep)
C37_CheckpointTimesNeverRaise ==
  (Iterating /\ arg.ctimes # {}) => \A sel \in SelectionsAt : sel.ok

\* C37, as the code has it: the selection raises exactly when no listed
\* time is at or ahead of the clock.
C37_RaisesOnceAllTimesPast ==
  (Iterating /\ arg.ctimes # {}) =>
    \A sel \in SelectionsAt : sel.ok <=> (\E v \in arg.ctimes : v >= time)


\* C33: a call given neither checkpoint_interval nor checkpoint_times
\* writes no field, tracer or swarm file in any iteration, and in any call
\* an iteration writes a swarm file only when its checkpoint decision
\* triggered.
LoopIteration == pc = "loop" /\ pc' = "loop" /\ stepDone' = stepDone + 1
WithoutCheckpointArgs == arg.ckMode = "none" /\ arg.ctimes = {}
C33_SwarmOnlyAtTrigger ==
  [][ LoopIteration =>
        /\ swarmFile' # swarmFile => hist'.lastTrig
        /\ WithoutCheckpointArgs =>
             (swarmFile' = swarmFile /\ fieldFile' = fieldFile) ]_vars

\* C33, as the code has it: field files are written at triggers only, and
\* every iteration writes the swarm file of the current checkpointID when
\* that ID is a multiple of restart_checkpoint, triggered or not.
C33_SwarmAtEveryIterationOnStride ==
  [][ LoopIteration =>
        /\ fieldFile' # fieldFile => hist'.lastTrig
        /\ swarmFile' # swarmFile => checkpointID' % arg.stride = 0
        /\ checkpointID' % arg.stride = 0 =>
             swarmFile'[checkpointID'] = [time |-> time', gstep |-> step'] ]_vars


\* C34: at every point of a run the files of one checkpoint ID carry one
\* time: the swarm file of ID N and the field (and tracer) files of ID N
\* record the same simulation time, that of the checkpoint.
C34_OneTimePerCheckpointID ==
  \A N \in IDs :
    (N \in fieldFile /\ HasSwarm(N)) => swarmFile[N].time = fieldTime[N]

\* C34, as the code has it: an iteration that triggers a checkpoint writes
\* its field files, and its swarm file when due, with the time of that
\* iteration; every later iteration without a trigger writes the swarm
\* file of the same ID again with its own time.
C34_SwarmFollowsTheClock ==
  [][ LoopIteration =>
        /\ hist'.lastTrig => fieldTime'[checkpointID'] = time'
        /\ ~hist'.lastTrig => fieldTime' = fieldTime
        /\ SwarmDue(checkpointID', arg.stride)
             => swarmFile'[checkpointID'].time = time' ]_vars


\* C35: in every output directory written by run_for, every checkpoint
\* index restart accepts as present has the files restart reads: the swarm
\* file, the mesh file under the name restart loads, the field files; and
\* no restart fails on a missing file.
RestartFilesPresent(N) == HasSwarm(N) /\ MeshOnDisk(N) /\ N \in fieldFile
MissingFile == hist.restart = "error" /\ hist.rerr = "IOError"
C35_AcceptedIndexHasAllFiles ==
  /\ \A N \in IDs : FilesOf(N) > 0 => RestartFilesPresent(N)
  /\ ~MissingFile


\* C36: a particle whose material declares no plasticity is never flagged
\* as yielding, whatever its viscosity and the viscosity limits, and its
\* plastic strain never grows in an _update.
NotPlastic(p) == materials[p].viscosity /\ ~materials[p].plasticity
C36_NonPlasticNeverYields ==
  /\ pc = "solved" =>
       \A p \in Particles :
         NotPlastic(p) => (viscosityFn.at[p].flag = 0 /\ viscosityFn.at[p].yield = 0)
  /\ (pc = "presolve" /\ step > 0) =>
       \A p \in Particles : NotPlastic(p) => plasticStrain[p] <= hist.psBefore[p]

\* C36, as the code has it: once a solution exists a particle without
\* plasticity is flagged exactly when the upper viscosity limit cuts its
\* viscosity, the flag comparing the limited viscosity with the unlimited
\* background viscosity.
C36_FlaggedWhenLimiterCuts ==
  pc = "solved" =>
    \A p \in Particles :
      NotPlastic(p) =>
        (viscosityFn.at[p].flag = 1
           <=> (hist.existed /\ viscosityFn.at[p].pre > LimitsOf(materials[p]).hi))

====
